---- MODULE Spec2Model ----
(***************************************************************************)
(* ShieldCLI: an inline reverse-proxy WAF.                                 *)
(*                                                                         *)
(* The module models                                                       *)
(*   - the rule engine (pkg/waf/engine.go): the rule list, AddRule,        *)
(*     Engine.Check and Engine.checkRule, with the matchers of the rule    *)
(*     model (package waf: Rule.Compile, Rule.Match, calculateEntropy,     *)
(*     detectSQLi, detectXSS);                                             *)
(*   - the proxy (pkg/proxy/proxy.go): one goroutine per request running   *)
(*     Proxy.handleRequest, the operator prompt Proxy.askUser on the       *)
(*     shared standard input, the forwarder and its error handler;         *)
(*   - the structured event ring (logging.StructuredLogger).               *)
(*                                                                         *)
(* Strings are sequences of one-character strings, so that substring,      *)
(* prefix, case folding, query parsing and token scanning are computed.    *)
(***************************************************************************)
EXTENDS Integers, Sequences, FiniteSets, TLC

(***************************************************************************)
(* Bounds of the model.                                                    *)
(***************************************************************************)
\* custom rules admitted with AddRule after the default rules
MaxAdded == 2
\* requests served in parallel by the proxy
MaxReq == 2
\* lines typed on the control channel and not read yet
MaxUnread == 1
\* the largest maxEvents a sink is created with
MaxRing == 2
\* LogEvent calls made on the sinks
MaxCalls == 3
\* goroutines calling into a sink
MaxThreads == 2
\* events added to an analyser
MaxBatch == 5
\* distinct source addresses in the events of a rule
MaxKeys == 11
\* characters of a string given to calculateEntropy
MaxData == 3
\* entries of a log file
MaxLines == 3

(***************************************************************************)
(* String helpers (Go package strings).                                    *)
(***************************************************************************)
UpperToLower ==
  [A |-> "a", B |-> "b", C |-> "c", D |-> "d", E |-> "e", F |-> "f", G |-> "g",
   H |-> "h", I |-> "i", J |-> "j", K |-> "k", L |-> "l", M |-> "m", N |-> "n",
   O |-> "o", P |-> "p", Q |-> "q", R |-> "r", S |-> "s", T |-> "t", U |-> "u",
   V |-> "v", W |-> "w", X |-> "x", Y |-> "y", Z |-> "z"]

\* strings.ToLower on one character
LowerChar(c) == IF c \in DOMAIN UpperToLower THEN UpperToLower[c] ELSE c

\* strings.ToLower
ToLower(s) == [i \in 1..Len(s) |-> LowerChar(s[i])]

LowerToUpper ==
  [a |-> "A", b |-> "B", c |-> "C", d |-> "D", e |-> "E", f |-> "F", g |-> "G",
   h |-> "H", i |-> "I", j |-> "J", k |-> "K", l |-> "L", m |-> "M", n |-> "N",
   o |-> "O", p |-> "P", q |-> "Q", r |-> "R", s |-> "S", t |-> "T", u |-> "U",
   v |-> "V", w |-> "W", x |-> "X", y |-> "Y", z |-> "Z"]

\* strings.ToUpper on one character
UpperChar(c) == IF c \in DOMAIN LowerToUpper THEN LowerToUpper[c] ELSE c

\* strings.ToUpper
ToUpper(s) == [i \in 1..Len(s) |-> UpperChar(s[i])]

\* strings.HasPrefix
HasPrefix(s, t) == Len(t) <= Len(s) /\ SubSeq(s, 1, Len(t)) = t

\* strings.HasSuffix
HasSuffix(s, t) == Len(t) <= Len(s) /\ SubSeq(s, Len(s) - Len(t) + 1, Len(s)) = t

\* strings.Contains
Contains(s, t) ==
  \E i \in 0..(Len(s) - Len(t)) : SubSeq(s, i + 1, i + Len(t)) = t

\* strings.Index, 1-based; 0 when c does not occur in s
IndexOf(s, c) ==
  IF \E i \in 1..Len(s) : s[i] = c
  THEN CHOOSE i \in 1..Len(s) : s[i] = c /\ \A j \in 1..(i - 1) : s[j] # c
  ELSE 0

RECURSIVE Split(_, _)
\* strings.Split(s, sep) for a one-character separator
Split(s, c) ==
  LET i == IndexOf(s, c) IN
  IF i = 0 THEN <<s>>
  ELSE <<SubSeq(s, 1, i - 1)>> \o Split(SubSeq(s, i + 1, Len(s)), c)

(***************************************************************************)
(* Rule model: actions, phases, operators.                                 *)
(***************************************************************************)
ActionBlock == "block"
ActionLog == "log"
ActionPass == "pass"

PhaseRequestHeaders == "request_headers"
PhaseRequestURI == "request_uri"
PhaseRequestBody == "request_body"
PhaseResponseHeaders == "response_headers"
PhaseResponseBody == "response_body"

OpContains == "contains"
OpNotContains == "notcontains"
OpStartsWith == "startswith"
OpEndsWith == "endswith"
OpEquals == "equals"
OpRegex == "regex"
OpNotRegex == "notregex"
OpHighEntropy == "high_entropy"
OpSQLi == "sqli"
OpXSS == "xss"

\* sqlPatterns of detectSQLi
SQLiPatterns ==
  << <<"'", " ", "O", "R", " ", "'", "1", "'", "=", "'", "1">>,
     <<"'", " ", "O", "R", " ", "1", "=", "1">>,
     <<"'", ";", " ", "D", "R", "O", "P", " ", "T", "A", "B", "L", "E">>,
     <<"U", "N", "I", "O", "N", " ", "S", "E", "L", "E", "C", "T">>,
     <<"'", " ", "O", "R", " ", "'", "a", "'", "=", "'", "a">>,
     <<"a", "d", "m", "i", "n", "'", " ", "-", "-">>,
     <<"'", " ", "/", "*">>,
     <<"*", "/", " ", "O", "R", " ", "/", "*">>,
     <<"x", "p", "_">>,
     <<"s", "p", "_">> >>

\* xssPatterns of detectXSS
XSSPatterns ==
  << <<"<", "s", "c", "r", "i", "p", "t">>,
     <<"j", "a", "v", "a", "s", "c", "r", "i", "p", "t", ":">>,
     <<"o", "n", "e", "r", "r", "o", "r", "=">>,
     <<"o", "n", "l", "o", "a", "d", "=">>,
     <<"o", "n", "c", "l", "i", "c", "k", "=">>,
     <<"o", "n", "m", "o", "u", "s", "e", "o", "v", "e", "r", "=">>,
     <<"<", "i", "f", "r", "a", "m", "e">>,
     <<"<", "o", "b", "j", "e", "c", "t">>,
     <<"<", "e", "m", "b", "e", "d">>,
     <<"<", "i", "m", "g">>,
     <<"<", "s", "v", "g">> >>

\* detectSQLi: the upper-cased data holds the upper-cased text of a pattern
detectSQLi(data) ==
  \E k \in 1..Len(SQLiPatterns) : Contains(ToUpper(data), ToUpper(SQLiPatterns[k]))

\* detectXSS: the lower-cased data holds the text of a pattern
detectXSS(data) ==
  \E k \in 1..Len(XSSPatterns) : Contains(ToLower(data), XSSPatterns[k])

(***************************************************************************)
(* Shannon entropy.  H(s) > 4.0 is decided on integers: with n = len(s),   *)
(* the number of bytes, and c the count of each rune,                      *)
(* H = (1/n) * SUM c * (log2 n - log2 c).                                  *)
(* Log2Milli[k] is round(1000 * log2 k).                                   *)
(***************************************************************************)
\* two characters outside ASCII: e with acute accent and the euro sign
RuneE9 == "U+00E9"
Rune20AC == "U+20AC"

\* the number of bytes of the UTF-8 encoding of a character
RuneLen(c) == CASE c = RuneE9 -> 2 [] c = Rune20AC -> 3 [] OTHER -> 1

RECURSIVE ByteLen(_)
\* len(s) of a Go string: its number of bytes
ByteLen(s) == IF Len(s) = 0 THEN 0 ELSE RuneLen(Head(s)) + ByteLen(Tail(s))

Log2Milli ==
  << 0, 1000, 1585, 2000, 2322, 2585, 2807, 3000, 3170, 3322, 3459, 3585,
     3700, 3807, 3907, 4000, 4087, 4170, 4248, 4322, 4392, 4459, 4524, 4585,
     4644, 4700, 4755, 4807, 4858, 4907, 4954, 5000, 5044, 5087, 5129, 5170,
     5209, 5248, 5285, 5322, 5358, 5392, 5426, 5459, 5492, 5524, 5555, 5585 >>

CharCount(s, c) == Cardinality({i \in 1..Len(s) : s[i] = c})

CharsOf(s) == {s[i] : i \in 1..Len(s)}

RECURSIVE SumOver(_, _)
SumOver(f, S) ==
  IF S = {} THEN 0
  ELSE LET x == CHOOSE x \in S : TRUE IN f[x] + SumOver(f, S \ {x})

\* calculateEntropy, lines 506-523: n * H(s) in thousandths of a bit, 0 for the
\* empty string; freq counts runes (511-514), p divides by len(s) (518)
calculateEntropy(s) ==
  IF ByteLen(s) = 0 THEN 0
  ELSE LET n == ByteLen(s)
           term == [c \in CharsOf(s) |->
                      CharCount(s, c) * (Log2Milli[n] - Log2Milli[CharCount(s, c)])]
       IN SumOver(term, CharsOf(s))

\* the entropy threshold of the high-entropy operator, in bits
EntropyThreshold == 4

\* entropy strictly above the threshold
HighEntropy(s) == calculateEntropy(s) > EntropyThreshold * 1000 * ByteLen(s)

(***************************************************************************)
(* Regular expressions.  A compiled expression is modelled by the matcher  *)
(* of its pattern text; the patterns of the default rules are translated   *)
(* by hand, any other text does not compile.                               *)
(***************************************************************************)
\* \.\.[/\\]|\.\..%2[fF]
PatPathTraversal == <<"\\", ".", "\\", ".", "[", "/", "\\", "\\", "]", "|", "\\", ".", "\\", ".", ".", "%", "2", "[", "f", "F", "]">>

\* [;&|\n][\s]*(cat|ls|rm|wget|curl|bash|sh|cmd|powershell)
PatCommandInjection == <<"[", ";", "&", "|", "\\", "n", "]", "[", "\\", "s", "]", "*", "(", "c", "a", "t", "|", "l", "s", "|", "r", "m", "|", "w", "g", "e", "t", "|", "c", "u", "r", "l", "|", "b", "a", "s", "h", "|", "s", "h", "|", "c", "m", "d", "|", "p", "o", "w", "e", "r", "s", "h", "e", "l", "l", ")">>

\* an unbalanced group: regexp.Compile reports an error
PatBroken == <<"(", "a", "d", "m", "i", "n">>

CommandWords ==
  { <<"c", "a", "t">>, <<"l", "s">>, <<"r", "m">>, <<"w", "g", "e", "t">>, <<"c", "u", "r", "l">>, <<"b", "a", "s", "h">>, <<"s", "h">>, <<"c", "m", "d">>, <<"p", "o", "w", "e", "r", "s", "h", "e", "l", "l">> }

WhiteSpace == {" ", "\t", "\n", "\r", "\f"}

\* \.\.[/\\]  or  \.\..%2[fF]   ('.' matches any character but a newline)
MatchPathTraversal(s) ==
  \E i \in 1..Len(s) :
    /\ i + 1 <= Len(s) /\ s[i] = "." /\ s[i + 1] = "."
    /\ \/ (i + 2 <= Len(s) /\ s[i + 2] \in {"/", "\\"})
       \/ (/\ i + 5 <= Len(s)
           /\ s[i + 2] # "\n"
           /\ s[i + 3] = "%" /\ s[i + 4] = "2" /\ s[i + 5] \in {"f", "F"})

\* [;&|\n] then any run of white space then one of the command words
MatchCommandInjection(s) ==
  \E i \in 1..Len(s) :
    /\ s[i] \in {";", "&", "|", "\n"}
    /\ \E j \in (i + 1)..Len(s) :
         /\ \A k \in (i + 1)..(j - 1) : s[k] \in WhiteSpace
         /\ \E w \in CommandWords : HasPrefix(SubSeq(s, j, Len(s)), w)

CompilablePatterns == {PatPathTraversal, PatCommandInjection}

\* regexp.MatchString of the compiled pattern
RegexMatch(pattern, s) ==
  CASE pattern = PatPathTraversal -> MatchPathTraversal(s)
    [] pattern = PatCommandInjection -> MatchCommandInjection(s)
    [] OTHER -> FALSE

\* a variant of Rule.Compile: every pattern is taken
CompileAlways(rule) == TRUE

\* Rule.Compile: only the regex family compiles its pattern
CompileOK(rule) ==
  rule.Operator \in {OpRegex, OpNotRegex} => rule.Pattern \in CompilablePatterns

\* Rule.regex of a rule Compile was called on: nil unless the pattern compiled
HasRegex(rule) == rule.Pattern \in CompilablePatterns

\* a variant of Rule.Match: the Enabled flag is not looked at
MatchAnyway(rule, data) ==
  CASE rule.Operator = OpContains -> Contains(data, rule.Pattern)
    [] rule.Operator = OpNotContains -> ~Contains(data, rule.Pattern)
    [] rule.Operator = OpRegex ->
         HasRegex(rule) /\ RegexMatch(rule.Pattern, data)
    [] rule.Operator = OpNotRegex ->
         HasRegex(rule) /\ ~RegexMatch(rule.Pattern, data)
    [] rule.Operator = OpStartsWith -> HasPrefix(data, rule.Pattern)
    [] rule.Operator = OpEndsWith -> HasSuffix(data, rule.Pattern)
    [] rule.Operator = OpEquals -> data = rule.Pattern
    [] rule.Operator = OpHighEntropy -> HighEntropy(data)
    [] rule.Operator = OpSQLi -> detectSQLi(data)
    [] rule.Operator = OpXSS -> detectXSS(data)
    [] OTHER -> FALSE

\* Rule.Match: a disabled rule never matches; otherwise the operator decides
Match(rule, data) ==
  IF ~rule.Enabled THEN FALSE
  ELSE CASE rule.Operator = OpContains -> Contains(data, rule.Pattern)
         [] rule.Operator = OpNotContains -> ~Contains(data, rule.Pattern)
         [] rule.Operator = OpRegex ->
              HasRegex(rule) /\ RegexMatch(rule.Pattern, data)
         [] rule.Operator = OpNotRegex ->
              HasRegex(rule) /\ ~RegexMatch(rule.Pattern, data)
         [] rule.Operator = OpStartsWith -> HasPrefix(data, rule.Pattern)
         [] rule.Operator = OpEndsWith -> HasSuffix(data, rule.Pattern)
         [] rule.Operator = OpEquals -> data = rule.Pattern
         [] rule.Operator = OpHighEntropy -> HighEntropy(data)
         [] rule.Operator = OpSQLi -> detectSQLi(data)
         [] rule.Operator = OpXSS -> detectXSS(data)
         [] OTHER -> FALSE

(***************************************************************************)
(* Requests (net/http.Request as the handler sees it).                     *)
(***************************************************************************)
\* textproto.CanonicalMIMEHeaderKey, used by Header.Get
CanonicalHeaderKey(s) ==
  [i \in 1..Len(s) |->
     IF i = 1 \/ s[i - 1] = "-" THEN UpperChar(s[i]) ELSE LowerChar(s[i])]

\* Header.Get: the first value of the header, "" when it is absent
HeaderGet(header, name) ==
  LET key == CanonicalHeaderKey(name) IN
  IF key \in DOMAIN header /\ Len(header[key]) > 0 THEN header[key][1] ELSE <<>>

HexDigits == <<"0", "1", "2", "3", "4", "5", "6", "7", "8", "9",
               "a", "b", "c", "d", "e", "f">>

IsHex(c) == \E i \in 1..16 : HexDigits[i] = LowerChar(c)

\* the characters the escapes of the modelled requests decode to
EscapedChar(hi, lo) ==
  LET code == <<LowerChar(hi), LowerChar(lo)>> IN
  CASE code = <<"2", "0">> -> " "
    [] code = <<"2", "7">> -> "'"
    [] code = <<"2", "f">> -> "/"
    [] code = <<"3", "c">> -> "<"
    [] code = <<"3", "d">> -> "="
    [] code = <<"3", "e">> -> ">"
    [] OTHER -> "?"

RECURSIVE QueryUnescape(_)
\* url.QueryUnescape: [ok, val]; '+' is a space, %XX a byte, a bad escape an error
QueryUnescape(s) ==
  IF Len(s) = 0 THEN [ok |-> TRUE, val |-> <<>>]
  ELSE IF s[1] = "%"
  THEN IF Len(s) >= 3 /\ IsHex(s[2]) /\ IsHex(s[3])
       THEN LET rest == QueryUnescape(SubSeq(s, 4, Len(s))) IN
            [ok |-> rest.ok, val |-> <<EscapedChar(s[2], s[3])>> \o rest.val]
       ELSE [ok |-> FALSE, val |-> <<>>]
  ELSE LET rest == QueryUnescape(SubSeq(s, 2, Len(s))) IN
       [ok |-> rest.ok, val |-> <<IF s[1] = "+" THEN " " ELSE s[1]>> \o rest.val]

\* the raw query of a request-URI: what follows the first '?'
RawQuery(uri) ==
  LET i == IndexOf(uri, "?") IN
  IF i = 0 THEN <<>> ELSE SubSeq(uri, i + 1, Len(uri))

\* r.URL.Query(): the decoded values of the pairs url.ParseQuery accepts
\* (a pair holding ';' or a bad escape is dropped)
QueryValues(uri) ==
  LET pairs == Split(RawQuery(uri), "&")
      keyOf(p) == IF IndexOf(p, "=") = 0 THEN p ELSE SubSeq(p, 1, IndexOf(p, "=") - 1)
      valOf(p) == IF IndexOf(p, "=") = 0 THEN <<>>
                  ELSE SubSeq(p, IndexOf(p, "=") + 1, Len(p))
  IN { QueryUnescape(valOf(pairs[i])).val :
         i \in { k \in 1..Len(pairs) :
                   /\ Len(pairs[k]) > 0
                   /\ IndexOf(pairs[k], ";") = 0
                   /\ QueryUnescape(keyOf(pairs[k])).ok
                   /\ QueryUnescape(valOf(pairs[k])).ok } }

UserAgent == <<"U", "s", "e", "r", "-", "A", "g", "e", "n", "t">>

UACurl == <<"c", "u", "r", "l", "/", "8", ".", "0">>
UABadBot == <<"B", "a", "d", "B", "o", "t">>

MkRequest(method, uri, ua, body) ==
  [Method |-> method, RequestURI |-> uri,
   Header |-> (UserAgent :> <<ua>>), Body |-> body, ContentLength |-> Len(body)]

ReqBenign == MkRequest("GET", <<"/", "a", "p", "i", "/", "d", "a", "t", "a">>, UACurl, <<>>)
\* GET /?id=1' OR '1'='1 as its request line carries it (a space is sent as '+')
ReqSQLiQuery == MkRequest("GET", <<"/", "?", "i", "d", "=", "1", "'", "+", "O", "R", "+", "'", "1", "'", "=", "'", "1">>, UACurl, <<>>)
ReqBadBot == MkRequest("GET", <<"/">>, UABadBot, <<>>)
ReqTraversalBadBot == MkRequest("GET", <<"/", ".", ".", "/", "e", "t", "c", "/", "p", "a", "s", "s", "w", "d">>, UABadBot, <<>>)
ReqTraversal == MkRequest("GET", <<"/", ".", ".", "/", "e", "t", "c", "/", "p", "a", "s", "s", "w", "d">>, UACurl, <<>>)
ReqSQLiBody == MkRequest("POST", <<"/", "a", "p", "i", "/", "d", "a", "t", "a">>, UACurl, <<"u", "=", "a", "d", "m", "i", "n", "'", " ", "O", "R", " ", "1", "=", "1", "-", "-">>)
ReqAdminEtc == MkRequest("GET", <<"/", "a", "d", "m", "i", "n", "/", "e", "t", "c">>, UACurl, <<>>)

\* GET http://elsewhere.example/api/data: a request line in absolute form
ReqAbsolute == MkRequest("GET", <<"h", "t", "t", "p", ":", "/", "/", "e", "l", "s", "e", "w", "h", "e", "r", "e", ".", "e", "x", "a", "m", "p", "l", "e", "/", "a", "p", "i", "/", "d", "a", "t", "a">>, UACurl, <<>>)

\* curl "http://localhost:8080/..%2F..%2Fetc%2Fpasswd" (TESTING.md, line 98)
ReqEncodedTraversal == MkRequest("GET", <<"/", ".", ".", "%", "2", "F", ".", ".", "%", "2", "F", "e", "t", "c", "%", "2", "F", "p", "a", "s", "s", "w", "d">>, UACurl, <<>>)

\* GET /..\etc\passwd
ReqBackslashTraversal == MkRequest("GET", <<"/", ".", ".", "\\", "e", "t", "c", "\\", "p", "a", "s", "s", "w", "d">>, UACurl, <<>>)

\* GET /search?q= : a query parameter with an empty value
ReqEmptyArg == MkRequest("GET", <<"/", "s", "e", "a", "r", "c", "h", "?", "q", "=">>, UACurl, <<>>)

\* the requests evaluated by the engine
EngineRequests ==
  {ReqBenign, ReqSQLiQuery, ReqBadBot, ReqTraversalBadBot, ReqTraversal,
   ReqSQLiBody, ReqAdminEtc, ReqEncodedTraversal, ReqBackslashTraversal,
   ReqEmptyArg}

(***************************************************************************)
(* The engine (pkg/waf/engine.go).                                         *)
(***************************************************************************)
DecisionAllow == 0
DecisionBlock == 1
DecisionLog == 2

TargetURI == <<"R", "E", "Q", "U", "E", "S", "T", "_", "U", "R", "I">>
TargetBody == <<"R", "E", "Q", "U", "E", "S", "T", "_", "B", "O", "D", "Y">>
TargetHeaders == <<"R", "E", "Q", "U", "E", "S", "T", "_", "H", "E", "A", "D", "E", "R", "S">>
TargetHeaderPrefix == <<"R", "E", "Q", "U", "E", "S", "T", "_", "H", "E", "A", "D", "E", "R", "S", ":">>
TargetArgs == <<"A", "R", "G", "S">>
TargetUserAgent == <<"R", "E", "Q", "U", "E", "S", "T", "_", "H", "E", "A", "D", "E", "R", "S", ":", "U", "s", "e", "r", "-", "A", "g", "e", "n", "t">>

MkRule(id, name, phase, op, pattern, target, action, severity, enabled) ==
  [ID |-> id, Name |-> name, Phase |-> phase, Operator |-> op,
   Pattern |-> pattern, Target |-> target, Action |-> action,
   Severity |-> severity, Enabled |-> enabled]

Rule1001 == MkRule(1001, <<"S", "Q", "L", " ", "I", "n", "j", "e", "c", "t", "i", "o", "n", " ", "-", " ", "C", "o", "m", "m", "o", "n", " ", "P", "a", "t", "t", "e", "r", "n", "s">>, PhaseRequestBody,
                   OpSQLi, <<>>, TargetBody, ActionBlock, "critical", TRUE)
Rule1002 == MkRule(1002, <<"C", "r", "o", "s", "s", "-", "S", "i", "t", "e", " ", "S", "c", "r", "i", "p", "t", "i", "n", "g", " ", "(", "X", "S", "S", ")">>, PhaseRequestBody,
                   OpXSS, <<>>, TargetBody, ActionBlock, "critical", TRUE)
Rule1003 == MkRule(1003, <<"P", "a", "t", "h", " ", "T", "r", "a", "v", "e", "r", "s", "a", "l">>, PhaseRequestURI,
                   OpRegex, PatPathTraversal, TargetURI, ActionBlock, "high", TRUE)
Rule1004 == MkRule(1004, <<"C", "o", "m", "m", "a", "n", "d", " ", "I", "n", "j", "e", "c", "t", "i", "o", "n">>, PhaseRequestBody,
                   OpRegex, PatCommandInjection, TargetBody, ActionBlock, "critical", TRUE)
Rule1005 == MkRule(1005, <<"S", "u", "s", "p", "i", "c", "i", "o", "u", "s", " ", "U", "s", "e", "r", "-", "A", "g", "e", "n", "t">>, PhaseRequestHeaders,
                   OpContains, <<"B", "a", "d", "B", "o", "t">>, TargetUserAgent, ActionBlock, "medium", TRUE)
Rule1006 == MkRule(1006, <<"H", "i", "g", "h", " ", "E", "n", "t", "r", "o", "p", "y", " ", "P", "a", "y", "l", "o", "a", "d">>, PhaseRequestBody,
                   OpHighEntropy, <<>>, TargetBody, ActionLog, "medium", TRUE)

RECURSIVE SelectSeqOK(_)
\* the rules of a list that compile, in order
SelectSeqOK(rs) ==
  IF Len(rs) = 0 THEN <<>>
  ELSE (IF CompileOK(Head(rs)) THEN <<Head(rs)>> ELSE <<>>) \o SelectSeqOK(Tail(rs))

\* Engine.addDefaultRules: the default rules that compile, in source order
addDefaultRules ==
  SelectSeqOK(<<Rule1001, Rule1002, Rule1003, Rule1004, Rule1005, Rule1006>>)

\* the rules offered to AddRule
RuleAdminBodyPhase == MkRule(2001, <<"A", "d", "m", "i", "n">>, PhaseRequestBody,
                   OpContains, <<"a", "d", "m", "i", "n">>, TargetURI, ActionBlock, "high", TRUE)
RuleEtcURIPhase == MkRule(2002, <<"E", "t", "c">>, PhaseRequestURI,
                   OpContains, <<"e", "t", "c">>, TargetURI, ActionBlock, "high", TRUE)
RuleAdminLog == MkRule(2003, <<"A", "d", "m", "i", "n", " ", "s", "e", "e", "n">>, PhaseRequestURI,
                   OpContains, <<"a", "d", "m", "i", "n">>, TargetURI, ActionLog, "low", TRUE)
RuleArgsSQLi == MkRule(2004, <<"S", "Q", "L", "i", " ", "i", "n", " ", "a", "r", "g", "u", "m", "e", "n", "t", "s">>, PhaseRequestURI,
                   OpSQLi, <<>>, TargetArgs, ActionBlock, "critical", TRUE)
RuleCurlPass == MkRule(2005, <<"C", "u", "r", "l">>, PhaseRequestHeaders,
                   OpContains, <<"c", "u", "r", "l">>, TargetHeaders, ActionPass, "low", TRUE)
RuleBodySQLi == MkRule(2006, <<"B", "o", "d", "y", " ", "S", "Q", "L", "i">>, PhaseRequestBody,
                   OpSQLi, <<>>, TargetBody, ActionBlock, "critical", TRUE)
RuleApiDisabled == MkRule(2007, <<"A", "p", "i">>, PhaseRequestURI,
                   OpContains, <<"a", "p", "i">>, TargetURI, ActionBlock, "low", FALSE)
RuleBroken == MkRule(2008, <<"B", "r", "o", "k", "e", "n">>, PhaseRequestURI,
                   OpRegex, PatBroken, TargetURI, ActionBlock, "low", TRUE)

RuleBrokenNot == MkRule(2009, <<"B", "r", "o", "k", "e", "n", " ", "n", "o", "t">>, PhaseRequestURI,
                   OpNotRegex, PatBroken, TargetURI, ActionBlock, "low", TRUE)

\* the target of the rule the README adds with `rules add`
TargetRemoteAddr == <<"R", "E", "M", "O", "T", "E", "_", "A", "D", "D", "R">>

\* the operators of the rule model
Operators ==
  {OpContains, OpNotContains, OpStartsWith, OpEndsWith, OpEquals, OpRegex,
   OpNotRegex, OpHighEntropy, OpSQLi, OpXSS}

\* the targets rules are written with
Targets ==
  {TargetURI, TargetBody, TargetHeaders, TargetUserAgent, TargetArgs,
   TargetRemoteAddr}

\* the patterns rules are written with: for the regex family one that compiles
PatternsFor(op) ==
  IF op \in {OpRegex, OpNotRegex} THEN {PatPathTraversal} ELSE {<<"/">>, <<"z">>}

\* one blocking rule for every operator, target, phase, pattern and Enabled flag
RuleSpace ==
  UNION {{MkRule(3000, <<"C", "u", "s", "t", "o", "m">>, phase, op, pattern, target, ActionBlock, "high", enabled) :
            pattern \in PatternsFor(op)} :
           <<op, target, phase, enabled>> \in
             Operators \X Targets
               \X {PhaseRequestHeaders, PhaseRequestURI, PhaseRequestBody}
               \X BOOLEAN}

RulePool ==
  {RuleAdminBodyPhase, RuleEtcURIPhase, RuleAdminLog, RuleArgsSQLi, RuleCurlPass,
   RuleBodySQLi, RuleApiDisabled, RuleBroken, RuleBrokenNot}

\* Engine.checkRule, lines 193-205: the local variable data when the switch is
\* left for a target with one text; the REQUEST_BODY case returns before
\* anything is assigned to it
TargetData(rule, r) ==
  CASE rule.Target = TargetURI -> r.RequestURI
    [] rule.Target = TargetBody -> <<>>
    [] HasPrefix(rule.Target, TargetHeaderPrefix) ->
         HeaderGet(r.Header, SubSeq(rule.Target, Len(TargetHeaderPrefix) + 1,
                                    Len(rule.Target)))
    [] OTHER -> <<>>

\* a variant of Engine.checkRule: a target it does not know is read as the
\* request URI
checkRuleDefaultURI(rule, r) ==
  IF ~rule.Enabled THEN FALSE
  ELSE CASE rule.Target = TargetURI ->
              r.RequestURI # <<>> /\ Match(rule, r.RequestURI)
         [] rule.Target = TargetBody -> FALSE
         [] HasPrefix(rule.Target, TargetHeaderPrefix) ->
              LET headerName == SubSeq(rule.Target, Len(TargetHeaderPrefix) + 1,
                                       Len(rule.Target))
                  data == HeaderGet(r.Header, headerName)
              IN data # <<>> /\ Match(rule, data)
         [] rule.Target = TargetHeaders ->
              \E name \in DOMAIN r.Header :
                \E k \in 1..Len(r.Header[name]) : Match(rule, r.Header[name][k])
         [] rule.Target = TargetArgs ->
              \E value \in QueryValues(r.RequestURI) : Match(rule, value)
         [] OTHER -> r.RequestURI # <<>> /\ Match(rule, r.RequestURI)

\* Engine.checkRule
checkRule(rule, r) ==
  IF ~rule.Enabled THEN FALSE
  ELSE CASE rule.Target = TargetURI ->
              r.RequestURI # <<>> /\ Match(rule, r.RequestURI)
         [] rule.Target = TargetBody -> FALSE
         [] HasPrefix(rule.Target, TargetHeaderPrefix) ->
              LET headerName == SubSeq(rule.Target, Len(TargetHeaderPrefix) + 1,
                                       Len(rule.Target))
                  data == HeaderGet(r.Header, headerName)
              IN data # <<>> /\ Match(rule, data)
         [] rule.Target = TargetHeaders ->
              \E name \in DOMAIN r.Header :
                \E k \in 1..Len(r.Header[name]) : Match(rule, r.Header[name][k])
         [] rule.Target = TargetArgs ->
              \E value \in QueryValues(r.RequestURI) : Match(rule, value)
         [] OTHER -> FALSE

Digits == <<"0", "1", "2", "3", "4", "5", "6", "7", "8", "9">>

RECURSIVE Itoa(_)
\* the %d verb of fmt.Sprintf
Itoa(n) ==
  IF n < 0 THEN <<"-">> \o Itoa(0 - n)
  ELSE IF n < 10 THEN <<Digits[n + 1]>>
  ELSE Itoa(n \div 10) \o <<Digits[(n % 10) + 1]>>

\* fmt.Sprintf("Rule %d: %s", rule.ID, rule.Name)
Reason(rule) == <<"R", "u", "l", "e", " ">> \o Itoa(rule.ID) \o <<":", " ">> \o rule.Name

\* a variant of the pass order: the request-URI pass runs before the headers pass
PhaseOrderURIFirst == <<PhaseRequestURI, PhaseRequestHeaders, PhaseRequestBody>>

\* the order of the three passes of Engine.Check
PhaseOrder == <<PhaseRequestHeaders, PhaseRequestURI, PhaseRequestBody>>

RECURSIVE CheckFrom(_, _, _, _)
\* the loops of Engine.Check from rule i of pass p on: the first rule of the
\* pass's phase that checkRule matches and whose action is block ends the call
CheckFrom(rs, r, p, i) ==
  IF p > Len(PhaseOrder) THEN <<DecisionAllow, <<>>>>
  ELSE IF i > Len(rs) THEN CheckFrom(rs, r, p + 1, 1)
  ELSE IF /\ rs[i].Phase = PhaseOrder[p]
          /\ checkRule(rs[i], r)
          /\ rs[i].Action = ActionBlock
       THEN <<DecisionBlock, Reason(rs[i])>>
       ELSE CheckFrom(rs, r, p, i + 1)

RECURSIVE CheckFromBack(_, _, _, _)
\* a variant of the loops: each pass walks the rules from the last to the first
CheckFromBack(rs, r, p, i) ==
  IF p > Len(PhaseOrder) THEN <<DecisionAllow, <<>>>>
  ELSE IF i < 1 THEN CheckFromBack(rs, r, p + 1, Len(rs))
  ELSE IF /\ rs[i].Phase = PhaseOrder[p]
          /\ checkRule(rs[i], r)
          /\ rs[i].Action = ActionBlock
       THEN <<DecisionBlock, Reason(rs[i])>>
       ELSE CheckFromBack(rs, r, p, i - 1)

\* a variant of Engine.Check: the last matching block rule of a pass wins
CheckLastWins(rs, r) == CheckFromBack(rs, r, 1, Len(rs))

RECURSIVE CheckFromAnyAction(_, _, _, _)
\* a variant of the loops: a matching rule ends the call unless its action is pass
CheckFromAnyAction(rs, r, p, i) ==
  IF p > Len(PhaseOrder) THEN <<DecisionAllow, <<>>>>
  ELSE IF i > Len(rs) THEN CheckFromAnyAction(rs, r, p + 1, 1)
  ELSE IF /\ rs[i].Phase = PhaseOrder[p]
          /\ checkRule(rs[i], r)
          /\ rs[i].Action # ActionPass
       THEN <<DecisionBlock, Reason(rs[i])>>
       ELSE CheckFromAnyAction(rs, r, p, i + 1)

\* a variant of Engine.Check: a matching log rule blocks too
CheckLogBlocks(rs, r) == CheckFromAnyAction(rs, r, 1, 1)

\* Engine.Check: <<decision, reason>>
Check(rs, r) == CheckFrom(rs, r, 1, 1)

(***************************************************************************)
(* State.                                                                  *)
(***************************************************************************)
VARIABLES
  rules,          \* Engine.rules
  addErr,         \* whether the last AddRule returned an error
  lastReq,        \* the request of the Engine.Check call that has just returned
  lastDecision,   \* the decision it returned
  lastReason,     \* the reason it returned
  DryRun,         \* Config.DryRun
  Interactive,    \* Config.Interactive
  pc,             \* per request: the position of its handleRequest goroutine
  req,            \* per request: the http.Request
  intercepted,    \* per request: what InterceptRequest buffered
  decision,       \* per request: the decision of Engine.Check
  reason,         \* per request: the reason of Engine.Check
  response,       \* per request: the token fmt.Scanln stored in askUser
  consumed,       \* per request: the input askUser's Scanln read
  statusCode,     \* per request: the status written to the client (0: none)
  respBody,       \* per request: the body written to the client
  forwarded,      \* per request: calls of reverseProxy.ServeHTTP
  logged,         \* per request: the levels written to the text Logger
  stdin,          \* the unread input of the control channel (os.Stdin)
  body,           \* per request: what r.Body yields after InterceptRequest
  out,            \* per request: the outbound request and what became of it
  stopped,        \* whether Proxy.Stop has closed the server
  aborted,        \* per request: its connection was closed under the handler
  events,         \* StructuredLogger.events, the in-memory event ring
  maxEvents,      \* StructuredLogger.maxEvents
  mu,             \* StructuredLogger.mu: the goroutine holding it, or NoHolder
  jsonFile,       \* StructuredLogger.jsonFile: "nil", "open" or "closed"
  csvFile,        \* StructuredLogger.csvFile: "nil", "open" or "closed"
  jsonDisk,       \* the file at jsonPath: the chunks written to it, in order
  csvDisk,        \* the file at csvPath: the chunks written to it, in order
  tpc,            \* per goroutine: its position inside a sink call
  tev,            \* per goroutine: the event of its LogEvent call
  tring,          \* per goroutine: the ring its export ranges over
  tfailed,        \* per goroutine: a file write of its LogEvent call failed
  exported,       \* the file the last export wrote, and the ring it ranged over
  snapshot,       \* the slice the last query returned, and its call
  accepted,       \* the events appended to the ring of this sink, in order
  lost,           \* positions in accepted of the events a file write failed for
  calls,          \* LogEvent calls made so far
  faulty,         \* whether writes to the files may fail
  eaEvents,       \* EfficacyAnalyzer.events
  eaRuleMetrics,  \* EfficacyAnalyzer.ruleMetrics
  eaAnalyzed,     \* AnalyzeRules has returned and no event was added since
  comparison,     \* the last call of CompareRules and what it returned
  ipCounts,       \* calculateRuleMetrics: the count of every source address,
                  \* the addresses numbered in the order they were first seen
  topBlocked,     \* what getTopN returned for ipCounts
  matchData,      \* Rule.Match: the data given to calculateEntropy
  entropy,        \* what calculateEntropy returned for matchData
  logFile,        \* loadEventsFromFile: the content of the log file
  loadPC,         \* loadEventsFromFile: the position in its code
  decScanp,       \* json.Decoder: the number of entries consumed
  decErr,         \* json.Decoder: the error it keeps, if any
  loaded,         \* loadEventsFromFile: its local events
  checking        \* per goroutine: its call of Engine.Check, loop by loop

engineVars == <<rules, addErr, lastReq, lastDecision, lastReason>>

proxyVars == <<DryRun, Interactive, pc, req, intercepted, decision, reason, response,
               consumed, statusCode, respBody, forwarded, logged, stdin,
               body, out, stopped, aborted>>

sinkVars == <<events, maxEvents, mu, jsonFile, csvFile, jsonDisk, csvDisk, tpc, tev,
              tring, tfailed, exported, snapshot, accepted, lost, calls, faulty>>

analysisVars ==
  <<eaEvents, eaRuleMetrics, eaAnalyzed, comparison, ipCounts, topBlocked>>

matchVars == <<matchData, entropy>>

loadVars == <<logFile, loadPC, decScanp, decErr, loaded>>

checkVars == <<checking>>

toolVars == <<matchVars, loadVars, checkVars>>

vars == <<engineVars, proxyVars, sinkVars, analysisVars, toolVars>>

Slots == 1..MaxReq

Threads == 1..MaxThreads

\* the zero sync.Mutex: nobody holds it
NoHolder == 0

\* the zero StructuredEvent
NoEvent ==
  [Timestamp |-> <<>>, EventID |-> <<>>, EventType |-> <<>>, Severity |-> <<>>,
   SourceIP |-> <<>>, Method |-> <<>>, URL |-> <<>>, StatusCode |-> 0,
   Blocked |-> FALSE, RuleID |-> <<>>, RuleName |-> <<>>, Reason |-> <<>>]

\* no query made yet
NoSnapshot == [kind |-> "none", arg |-> <<>>, ring |-> <<>>, result |-> <<>>]

\* no export made yet
NoExport == [kind |-> "none", content |-> <<>>, ring |-> <<>>]

\* the nil map of CompareRules
NilComparison == [found |-> FALSE]

\* CompareRules was not called
NoComparison == [ruleID1 |-> <<>>, ruleID2 |-> <<>>, result |-> NilComparison]

\* calculateEntropy was not called
NoEntropy == 0 - 1

\* the zero http.Request: no request yet
NoRequest ==
  [Method |-> "", RequestURI |-> <<>>, Header |-> <<>>, Body |-> <<>>,
   ContentLength |-> 0]

\* a goroutine that has not called Engine.Check
NotChecking ==
  [pc |-> "idle", r |-> NoRequest, pass |-> 0, index |-> 0,
   decision |-> 0, reason |-> <<>>]

\* neither calculateEntropy nor loadEventsFromFile is running, and no
\* goroutine is in a call of Engine.Check followed loop by loop
ToolsIdle ==
  /\ checking = [t \in Slots |-> NotChecking]
  /\ matchData = <<>>
  /\ entropy = NoEntropy
  /\ logFile = [array |-> FALSE, entries |-> <<>>]
  /\ loadPC = "idle"
  /\ decScanp = 0
  /\ decErr = FALSE
  /\ loaded = <<>>

\* getTopN was not called
NoTop == [done |-> FALSE, keys |-> {}]

\* NewEfficacyAnalyzer, lines 50-57: no event, no metrics
AnalyzerFresh ==
  /\ eaEvents = <<>>
  /\ eaRuleMetrics = [id \in {} |-> 0]
  /\ eaAnalyzed = FALSE
  /\ comparison = NoComparison
  /\ ipCounts = <<>>
  /\ topBlocked = NoTop

\* the program has built no StructuredLogger
SinkIdle ==
  /\ events = <<>>
  /\ maxEvents = 0
  /\ mu = NoHolder
  /\ jsonFile = "nil" /\ csvFile = "nil"
  /\ jsonDisk = <<>> /\ csvDisk = <<>>
  /\ tpc = [t \in Threads |-> "idle"]
  /\ tev = [t \in Threads |-> NoEvent]
  /\ tring = [t \in Threads |-> <<>>]
  /\ tfailed = [t \in Threads |-> FALSE]
  /\ exported = NoExport
  /\ snapshot = NoSnapshot
  /\ accepted = <<>>
  /\ lost = {}
  /\ calls = 0
  /\ faulty = FALSE

\* no outbound request yet
NoOutbound ==
  [Method |-> "", URL |-> [Scheme |-> <<>>, Host |-> <<>>, Path |-> <<>>],
   Header |-> <<>>, Body |-> <<>>, result |-> "none"]

\* the state of the proxy right after NewProxy, before any request
ProxyIdle ==
  /\ pc = [r \in Slots |-> "idle"]
  /\ req = [r \in Slots |-> NoRequest]
  /\ intercepted = [r \in Slots |-> <<>>]
  /\ decision = [r \in Slots |-> DecisionAllow]
  /\ reason = [r \in Slots |-> <<>>]
  /\ response = [r \in Slots |-> <<>>]
  /\ consumed = [r \in Slots |-> <<>>]
  /\ statusCode = [r \in Slots |-> 0]
  /\ respBody = [r \in Slots |-> <<>>]
  /\ forwarded = [r \in Slots |-> 0]
  /\ logged = [r \in Slots |-> <<>>]
  /\ stdin = <<>>
  /\ body = [r \in Slots |-> <<>>]
  /\ out = [r \in Slots |-> NoOutbound]
  /\ stopped = FALSE
  /\ aborted = [r \in Slots |-> FALSE]

\* NewEngine: the default rules, no Check call yet
EngineFresh ==
  /\ rules = addDefaultRules
  /\ addErr = FALSE
  /\ lastReq = NoRequest
  /\ lastDecision = DecisionAllow
  /\ lastReason = <<>>

(***************************************************************************)
(* The engine as a library: AddRule and Check.                             *)
(***************************************************************************)
InitEngine ==
  /\ EngineFresh
  /\ DryRun = FALSE /\ Interactive = FALSE
  /\ ProxyIdle
  /\ AnalyzerFresh
  /\ ToolsIdle
  /\ SinkIdle

\* Engine.AddRule: a rule that compiles is appended (the result of an earlier
\* Check call is dropped: it was computed on the old rule list)
AddRuleOK(rule) ==
  /\ Len(rules) < Len(addDefaultRules) + MaxAdded
  /\ CompileOK(rule)
  /\ rules' = Append(rules, rule)
  /\ addErr' = FALSE
  /\ lastReq' = NoRequest /\ lastDecision' = DecisionAllow /\ lastReason' = <<>>
  /\ UNCHANGED <<proxyVars, sinkVars, analysisVars, toolVars>>

\* Engine.AddRule: a rule that does not compile is refused
AddRuleBad(rule) ==
  /\ Len(rules) < Len(addDefaultRules) + MaxAdded
  /\ ~CompileOK(rule)
  /\ addErr' = TRUE
  /\ lastReq' = NoRequest /\ lastDecision' = DecisionAllow /\ lastReason' = <<>>
  /\ UNCHANGED <<rules, proxyVars, sinkVars, analysisVars, toolVars>>

\* Engine.Check on one request
EngineCheck(r) ==
  /\ lastReq' = r
  /\ \E res \in {Check(rules, r)} :
       /\ lastDecision' = res[1]
       /\ lastReason' = res[2]
  /\ UNCHANGED <<rules, addErr, proxyVars, sinkVars, analysisVars, toolVars>>

NextEngine ==
  \/ \E rule \in RulePool : AddRuleOK(rule)
  \/ \E rule \in RulePool : AddRuleBad(rule)
  \/ \E r \in EngineRequests : EngineCheck(r)

SpecEngine == InitEngine /\ [][NextEngine]_vars

\* the engine after NewEngine and one AddRule call with a rule of RuleSpace
InitRules ==
  /\ \E rule \in RuleSpace : rules = Append(addDefaultRules, rule)
  /\ addErr = FALSE
  /\ lastReq = NoRequest
  /\ lastDecision = DecisionAllow
  /\ lastReason = <<>>
  /\ DryRun = FALSE /\ Interactive = FALSE
  /\ ProxyIdle
  /\ AnalyzerFresh
  /\ ToolsIdle
  /\ SinkIdle

\* one more rule is admitted behind it, and requests are checked
NextRules ==
  \/ AddRuleOK(RuleEtcURIPhase)
  \/ \E r \in EngineRequests : EngineCheck(r)

SpecRules == InitRules /\ [][NextRules]_vars

(***************************************************************************)
(* The proxy (pkg/proxy/proxy.go): one goroutine per request.              *)
(***************************************************************************)
StatusOK == 200
StatusForbidden == 403
StatusBadGateway == 502

BodyForbidden == <<"F", "o", "r", "b", "i", "d", "d", "e", "n">>
BodyBadGateway == <<"B", "a", "d", " ", "G", "a", "t", "e", "w", "a", "y">>
BodyElsewhere == <<"H", "e", "l", "l", "o", " ", "f", "r", "o", "m", " ", "e", "l", "s", "e", "w", "h", "e", "r", "e", "!">>
BodyOrigin == <<"H", "e", "l", "l", "o", " ", "f", "r", "o", "m", " ", "t", "e", "s", "t", " ", "s", "e", "r", "v", "e", "r", "!">>

\* the requests clients send to the proxy
ProxyRequests == {ReqBenign, ReqBadBot, ReqSQLiQuery, ReqSQLiBody, ReqAbsolute}

\* a request with a body from a client rule 1005 blocks
ReqBadBotBody == MkRequest("POST", <<"/", "l", "o", "g", "i", "n">>, UABadBot, <<"u", "s", "e", "r", "=", "b", "o", "b">>)

\* a request sent with Transfer-Encoding: chunked: net/http gives it
\* ContentLength -1
ReqChunked ==
  [MkRequest("POST", <<"/", "u", "p", "l", "o", "a", "d">>, UACurl, <<"a", "=", "1">>) EXCEPT !.ContentLength = 0 - 1]

\* the requests with and without a body that InterceptRequest is followed on
BodyRequests == {ReqBenign, ReqSQLiBody, ReqBadBotBody, ReqChunked}

\* the lines the operator types (without the newline)
OperatorLines == { <<"a">>, <<"A">>, <<"d">>, <<>>, <<"a", " ", "d">> }

BlankChars == {" ", "\t", "\r"}

\* fmt.Scanln(&response) on the unread input: leading blanks are skipped, a
\* newline there ends the call with nothing stored; otherwise the token up to
\* the next white space is stored, and the call reads on to the newline or to
\* the first character that is not blank (which it consumes and reports as an
\* error the caller ignores)
Scanln(buf) ==
  LET start == CHOOSE i \in 1..(Len(buf) + 1) :
                 /\ (i <= Len(buf) => buf[i] \notin BlankChars)
                 /\ \A j \in 1..(i - 1) : buf[j] \in BlankChars
  IN IF start > Len(buf) THEN [response |-> <<>>, used |-> Len(buf)]
     ELSE IF buf[start] = "\n" THEN [response |-> <<>>, used |-> start]
     ELSE LET stop == CHOOSE i \in (start + 1)..(Len(buf) + 1) :
                        /\ (i <= Len(buf) => buf[i] \in WhiteSpace)
                        /\ \A j \in start..(i - 1) : buf[j] \notin WhiteSpace
              after == CHOOSE i \in stop..(Len(buf) + 1) :
                        /\ (i <= Len(buf) => buf[i] \notin BlankChars)
                        /\ \A j \in stop..(i - 1) : buf[j] \in BlankChars
          IN [response |-> SubSeq(buf, start, stop - 1),
              used |-> IF after > Len(buf) THEN Len(buf) ELSE after]

InitProxy ==
  /\ EngineFresh
  /\ DryRun \in BOOLEAN /\ Interactive \in BOOLEAN
  /\ ProxyIdle
  /\ AnalyzerFresh
  /\ ToolsIdle
  /\ SinkIdle

\* a variant of handleRequest: it returns when InterceptRequest fails
AfterInterceptReturn(readOK) == IF readOK THEN "check" ELSE "done"

\* handleRequest, lines 110-115: the error of InterceptRequest is logged and
\* the handler goes on to Engine.Check either way
AfterIntercept(readOK) == "check"

\* handleRequest, lines 104-112, on request q; readOK says whether io.ReadAll
\* read the body to its end (it is called when ContentLength > 0 only)
Accept(r, q, readOK) ==
  /\ pc[r] = "idle"
  /\ ~stopped
  /\ r > 1 => pc[r - 1] # "idle"
  /\ (~readOK) => q.ContentLength > 0
  /\ req' = [req EXCEPT ![r] = q]
  /\ intercepted' = [intercepted EXCEPT ![r] =
       IF readOK /\ q.ContentLength > 0 THEN q.Body ELSE <<>>]
  /\ body' = [body EXCEPT ![r] = IF readOK THEN q.Body ELSE <<>>]
  /\ logged' = [logged EXCEPT ![r] =
       IF readOK THEN <<"DEBUG">> ELSE <<"DEBUG", "ERROR">>]
  /\ pc' = [pc EXCEPT ![r] = AfterIntercept(readOK)]
  /\ UNCHANGED <<engineVars, DryRun, Interactive, decision, reason, response,
                 consumed, statusCode, respBody, forwarded, stdin, out, stopped,
                 aborted, sinkVars, analysisVars, toolVars>>

\* the server accepts a connection and runs handleRequest on its request,
\* lines 104-112: InterceptRequest buffers the body when ContentLength > 0;
\* a read error is logged and the request goes on
Intercept(r) == \E q \in ProxyRequests, readOK \in BOOLEAN : Accept(r, q, readOK)

\* p.wafEngine.Check(r): the proxy's engine is the one NewProxy built, and
\* nothing in the program admits a rule to it afterwards, so its decisions
\* are those of Engine.Check on the default rules
ProxyCheck == [q \in ProxyRequests \cup BodyRequests |-> Check(addDefaultRules, q)]

\* a variant of the mode policy: the dry-run test is inverted
ModePolicyInverted(d) ==
  IF d = DecisionBlock
  THEN IF Interactive THEN "scan"
       ELSE IF DryRun THEN "refuse"
       ELSE "forward"
  ELSE "forward"

\* a variant of the mode policy: dry-run is tested before interactive
ModePolicyDryRunFirst(d) ==
  IF d = DecisionBlock
  THEN IF DryRun THEN "forward"
       ELSE IF Interactive THEN "scan"
       ELSE "refuse"
  ELSE "forward"

\* handleRequest, lines 117-134: where a request goes after Engine.Check
ModePolicy(d) ==
  IF d = DecisionBlock
  THEN IF Interactive THEN "scan"
       ELSE IF ~DryRun THEN "refuse"
       ELSE "forward"
  ELSE "forward"

\* handleRequest, lines 115-134, and askUser, lines 152-153: Engine.Check, the
\* mode policy and, in interactive mode, the prompt printed for a Block
CheckAndDecide(r) ==
  /\ pc[r] = "check"
  /\ \E res \in {ProxyCheck[req[r]]} :
     LET to == ModePolicy(res[1])
     IN /\ decision' = [decision EXCEPT ![r] = res[1]]
        /\ reason' = [reason EXCEPT ![r] = res[2]]
        /\ logged' = [logged EXCEPT ![r] =
             IF res[1] = DecisionBlock THEN Append(@, "BLOCK") ELSE @]
        /\ IF to = "refuse"
           THEN /\ statusCode' = [statusCode EXCEPT ![r] = StatusForbidden]
                /\ respBody' = [respBody EXCEPT ![r] = BodyForbidden]
                /\ pc' = [pc EXCEPT ![r] = "done"]
           ELSE /\ pc' = [pc EXCEPT ![r] = to]
                /\ UNCHANGED <<statusCode, respBody>>
  /\ UNCHANGED <<engineVars, DryRun, Interactive, req, intercepted, response,
                 consumed, forwarded, stdin, body, out, stopped, aborted, sinkVars, analysisVars, toolVars>>

\* askUser, line 158
Approved(resp) == resp = <<"a">> \/ resp = <<"A">>

\* askUser, lines 155-158, and handleRequest, lines 122-126: Scanln returns
\* once the control channel has input
AskScan(r) ==
  /\ pc[r] = "scan"
  /\ stdin # <<>>
  /\ \E got \in {Scanln(stdin)} :
       /\ stdin' = SubSeq(stdin, got.used + 1, Len(stdin))
       /\ consumed' = [consumed EXCEPT ![r] = SubSeq(stdin, 1, got.used)]
       /\ response' = [response EXCEPT ![r] = got.response]
       /\ IF Approved(got.response)
          THEN /\ pc' = [pc EXCEPT ![r] = "forward"]
               /\ UNCHANGED <<statusCode, respBody>>
          ELSE /\ statusCode' = [statusCode EXCEPT ![r] = StatusForbidden]
               /\ respBody' = [respBody EXCEPT ![r] = BodyForbidden]
               /\ pc' = [pc EXCEPT ![r] = "done"]
  /\ UNCHANGED <<engineVars, DryRun, Interactive, req, intercepted, decision, reason,
                 forwarded, logged, body, out, stopped, aborted, sinkVars, analysisVars, toolVars>>

\* Config.ProxyTo: the origin the operator configured
ProxyTo == <<"h", "t", "t", "p", ":", "/", "/", "l", "o", "c", "a", "l", "h", "o", "s", "t", ":", "3", "0", "0", "0">>

Http == <<"h", "t", "t", "p">>
Https == <<"h", "t", "t", "p", "s">>
SchemeSep == <<":", "/", "/">>

\* url.Parse / url.ParseRequestURI on the texts of the model: an origin-form
\* target ("/path?query") has neither scheme nor host, an absolute-form one
\* ("scheme://host/path") carries both
ParseURL(u) ==
  IF HasPrefix(u, <<"/">>)
  THEN [Scheme |-> <<>>, Host |-> <<>>, Path |-> u]
  ELSE LET k == CHOOSE i \in 1..(Len(u) + 1) :
                  /\ (i <= Len(u) => HasPrefix(SubSeq(u, i, Len(u)), SchemeSep))
                  /\ \A j \in 1..(i - 1) :
                       ~HasPrefix(SubSeq(u, j, Len(u)), SchemeSep)
           rest == SubSeq(u, k + Len(SchemeSep), Len(u))
           slash == IndexOf(rest, "/")
       IN IF k > Len(u) THEN [Scheme |-> <<>>, Host |-> <<>>, Path |-> u]
          ELSE [Scheme |-> SubSeq(u, 1, k - 1),
                Host |-> IF slash = 0 THEN rest ELSE SubSeq(rest, 1, slash - 1),
                Path |-> IF slash = 0 THEN <<>> ELSE SubSeq(rest, slash, Len(rest))]

\* the URL NewProxy parses from Config.ProxyTo (line 30)
targetURL == ParseURL(ProxyTo)

\* r.RemoteAddr of the modelled clients
RemoteAddr == <<"1", "0", ".", "0", ".", "0", ".", "7", ":", "4", "0", "0", "0", "0">>

XForwardedFor == <<"X", "-", "F", "o", "r", "w", "a", "r", "d", "e", "d", "-", "F", "o", "r">>
XForwardedProto == <<"X", "-", "F", "o", "r", "w", "a", "r", "d", "e", "d", "-", "P", "r", "o", "t", "o">>
XForwardedHost == <<"X", "-", "F", "o", "r", "w", "a", "r", "d", "e", "d", "-", "H", "o", "s", "t">>
HostHeader == <<"H", "o", "s", "t">>

\* Header.Add: the value is appended to the values of the header
HeaderAdd(header, name, value) ==
  LET key == CanonicalHeaderKey(name) IN
  IF key \in DOMAIN header
  THEN [header EXCEPT ![key] = Append(@, value)]
  ELSE header @@ (key :> <<value>>)

\* rp.Director, lines 45-49: the function NewProxy assigns replaces the
\* director NewSingleHostReverseProxy built (the one that points the request
\* at targetURL); it adds three headers and leaves the URL of the outbound
\* request as the server parsed it from the request line
Director(q, live) ==
  [Method |-> q.Method,
   URL |-> ParseURL(q.RequestURI),
   Header |-> HeaderAdd(HeaderAdd(HeaderAdd(q.Header, XForwardedFor, RemoteAddr),
                                  XForwardedProto, Http),
                        XForwardedHost, HeaderGet(q.Header, HostHeader)),
   Body |-> live,
   result |-> "none"]

\* the host part of r.RemoteAddr
ClientIP == SubSeq(RemoteAddr, 1, IndexOf(RemoteAddr, ":") - 1)

RECURSIVE Join(_, _)
\* strings.Join
Join(parts, sep) ==
  IF Len(parts) = 0 THEN <<>>
  ELSE IF Len(parts) = 1 THEN parts[1]
  ELSE parts[1] \o sep \o Join(Tail(parts), sep)

\* reverseProxy.ServeHTTP after the Director: the client address is appended
\* to the X-Forwarded-For values, folded into one comma-separated value
AppendClientIP(o) ==
  LET key == CanonicalHeaderKey(XForwardedFor)
      prior == IF key \in DOMAIN o.Header THEN o.Header[key] ELSE <<>>
      value == IF Len(prior) = 0 THEN ClientIP
               ELSE Join(prior, <<",", " ">>) \o <<",", " ">> \o ClientIP
  IN [o EXCEPT !.Header = [n \in (DOMAIN o.Header) \cup {key} |->
                             IF n = key THEN <<value>> ELSE o.Header[n]]]

\* a variant of the error handler: the failure is answered as a success
ErrorHandlerSilent == [status |-> 200, body |-> <<>>]

\* rp.ErrorHandler, lines 52-56: what the client is answered when the round
\* trip fails
ErrorHandler == [status |-> StatusBadGateway, body |-> BodyBadGateway]

\* http.Transport.RoundTrip refuses a URL without an http(s) scheme or
\* without a host before it dials
CanDial(u) == u.Scheme \in {Http, Https} /\ u.Host # <<>>

\* what happens to an outbound request: refused by the transport, the dial
\* fails, the response head cannot be read, the response body breaks after
\* the head was relayed, or the response is relayed whole
UpstreamResults == {"refused", "dial_error", "head_error", "body_error", "ok"}

\* the results the ErrorHandler of lines 52-56 is called for
RoundTripFailed == {"refused", "dial_error", "head_error"}

\* the body the server at a host answers with
BodyOf(host) == IF host = targetURL.Host THEN BodyOrigin ELSE BodyElsewhere

\* handleRequest, lines 137-147: reverseProxy.ServeHTTP runs the Director on
\* a clone of the request and hands it to the transport; a round trip that
\* fails calls the ErrorHandler (lines 52-56), which answers 502; a response
\* is relayed as it comes, and a body that breaks after the head was relayed
\* ends the handler (http.ErrAbortHandler) with the status already sent
Forward(r) ==
  /\ pc[r] = "forward"
  /\ forwarded' = [forwarded EXCEPT ![r] = @ + 1]
  /\ \E o \in {AppendClientIP(Director(req[r], body[r]))},
        result \in UpstreamResults :
       /\ (result = "refused") <=> ~CanDial(o.URL)
       /\ out' = [out EXCEPT ![r] = [o EXCEPT !.result = result]]
       /\ IF result \in RoundTripFailed
          THEN /\ statusCode' = [statusCode EXCEPT ![r] = ErrorHandler.status]
               /\ respBody' = [respBody EXCEPT ![r] = ErrorHandler.body]
               /\ logged' = [logged EXCEPT ![r] = @ \o <<"ERROR", "DEBUG">>]
          ELSE IF result = "body_error"
          THEN /\ statusCode' = [statusCode EXCEPT ![r] = StatusOK]
               /\ respBody' = [respBody EXCEPT ![r] = <<>>]
               /\ UNCHANGED logged
          ELSE /\ statusCode' = [statusCode EXCEPT ![r] = StatusOK]
               /\ respBody' = [respBody EXCEPT ![r] = BodyOf(o.URL.Host)]
               /\ logged' = [logged EXCEPT ![r] = Append(@, "DEBUG")]
  /\ pc' = [pc EXCEPT ![r] = "done"]
  /\ UNCHANGED <<engineVars, DryRun, Interactive, req, intercepted, decision, reason,
                 response, consumed, stdin, body, stopped, aborted, sinkVars, analysisVars, toolVars>>

\* complete lines waiting on the control channel
UnreadLines(buf) == Cardinality({i \in 1..Len(buf) : buf[i] = "\n"})

\* the operator types a line on the control channel
TypeLine(line) ==
  /\ Interactive
  /\ UnreadLines(stdin) < MaxUnread
  /\ stdin' = stdin \o line \o <<"\n">>
  /\ UNCHANGED <<engineVars, DryRun, Interactive, pc, req, intercepted, decision,
                 reason, response, consumed, statusCode, respBody, forwarded,
                 logged, body, out, stopped, aborted, sinkVars, analysisVars, toolVars>>

NextProxy ==
  \/ \E r \in Slots : Intercept(r)
  \/ \E r \in Slots : CheckAndDecide(r)
  \/ \E r \in Slots : AskScan(r)
  \/ \E r \in Slots : Forward(r)
  \/ \E line \in OperatorLines : TypeLine(line)

\* the proxy under every combination of --dry-run and --interactive
SpecProxy == InitProxy /\ [][NextProxy]_vars

\* the proxy started without --interactive: askUser is never called
InitBatch == InitProxy /\ ~Interactive

NextBatch ==
  \/ \E r \in Slots : Intercept(r)
  \/ \E r \in Slots : CheckAndDecide(r)
  \/ \E r \in Slots : Forward(r)

SpecBatch == InitBatch /\ [][NextBatch]_vars

\* the same proxy on requests with and without a body
NextIntercept ==
  \/ \E r \in Slots, q \in BodyRequests, readOK \in BOOLEAN : Accept(r, q, readOK)
  \/ \E r \in Slots : CheckAndDecide(r)
  \/ \E r \in Slots : Forward(r)

SpecIntercept == InitBatch /\ [][NextIntercept]_vars

\* the proxy started with --interactive
InitInteractive == InitProxy /\ Interactive

SpecInteractive == InitInteractive /\ [][NextProxy]_vars

\* runCmd, lines 37-58: the proxy started with --dry-run, with or without
\* --interactive
InitDryRun == InitProxy /\ DryRun

SpecDryRun == InitDryRun /\ [][NextProxy]_vars

\* runWAF, lines 102-106, and Proxy.Stop, lines 96-101: on SIGINT or SIGTERM
\* the signal goroutine calls p.server.Close(), which closes the listener and
\* every connection of the server, those with a request in progress included
Stop ==
  /\ ~stopped
  /\ stopped' = TRUE
  /\ aborted' = [r \in Slots |-> pc[r] \notin {"idle", "done"}]
  /\ UNCHANGED <<engineVars, DryRun, Interactive, pc, req, intercepted, decision,
                 reason, response, consumed, statusCode, respBody, forwarded,
                 logged, stdin, body, out, sinkVars, analysisVars, toolVars>>

\* runWAF, lines 113-116: Serve returns once the server is closed, runWAF
\* returns its error and the process ends with the handlers still running
Exit ==
  /\ stopped
  /\ \E r \in Slots : pc[r] \notin {"idle", "done", "killed"}
  /\ pc' = [r \in Slots |->
             IF pc[r] \in {"idle", "done"} THEN pc[r] ELSE "killed"]
  /\ UNCHANGED <<engineVars, DryRun, Interactive, req, intercepted, decision,
                 reason, response, consumed, statusCode, respBody, forwarded,
                 logged, stdin, body, out, stopped, aborted, sinkVars, analysisVars, toolVars>>

NextShutdown ==
  \/ \E r \in Slots : Intercept(r)
  \/ \E r \in Slots : CheckAndDecide(r)
  \/ \E r \in Slots : Forward(r)
  \/ Stop
  \/ Exit

\* the proxy without --interactive, with the termination signal
SpecShutdown == InitBatch /\ [][NextShutdown]_vars

(***************************************************************************)
(* The event sink (logging.StructuredLogger).                              *)
(***************************************************************************)
\* time.Time{}: the zero time
ZeroTime == <<"0", "0", "0", "1", "-", "0", "1", "-", "0", "1", "T", "0", "0", ":", "0", "0", ":", "0", "0", "Z">>
\* a time the caller put into the event
GivenTime == <<"2", "0", "2", "5", "-", "1", "2", "-", "0", "1", "T", "1", "0", ":", "3", "0", ":", "4", "5", "Z">>
\* time.Now() at the call
NowTime == <<"2", "0", "2", "6", "-", "0", "1", "-", "0", "1", "T", "0", "0", ":", "0", "0", ":", "0", "0", "Z">>

\* the events callers log
EvBlocked ==
  [Timestamp |-> ZeroTime, EventID |-> <<"e", "1">>, EventType |-> <<"b", "l", "o", "c", "k", "e", "d">>,
   Severity |-> <<"h", "i", "g", "h">>, SourceIP |-> <<"1", "0", ".", "0", ".", "0", ".", "7">>, Method |-> <<"G", "E", "T">>, URL |-> <<"/">>,
   StatusCode |-> 403, Blocked |-> TRUE, RuleID |-> <<"1", "0", "0", "5">>,
   RuleName |-> <<"U", "A">>, Reason |-> <<"R", "u", "l", "e", " ", "1", "0", "0", "5", ":", " ", "U", "A">>]
EvAllowed ==
  [Timestamp |-> GivenTime, EventID |-> <<"e", "2">>, EventType |-> <<"r", "e", "q", "u", "e", "s", "t">>,
   Severity |-> <<"l", "o", "w">>, SourceIP |-> <<"1", "0", ".", "0", ".", "0", ".", "7">>, Method |-> <<"G", "E", "T">>, URL |-> <<"/", "a", "p", "i">>,
   StatusCode |-> 200, Blocked |-> FALSE, RuleID |-> <<>>,
   RuleName |-> <<>>, Reason |-> <<>>]

EventPool == {EvBlocked, EvAllowed}

\* the header of the tabular file, lines 168 and 286
CSVHeader == <<"T", "i", "m", "e", "s", "t", "a", "m", "p", ",", "E", "v", "e", "n", "t", "I", "D", ",", "E", "v", "e", "n", "t", "T", "y", "p", "e", ",", "S", "e", "v", "e", "r", "i", "t", "y", ",", "S", "o", "u", "r", "c", "e", "I", "P", ",", "M", "e", "t", "h", "o", "d", ",", "U", "R", "L", ",", "S", "t", "a", "t", "u", "s", "C", "o", "d", "e", ",", "B", "l", "o", "c", "k", "e", "d", ",", "R", "u", "l", "e", "I", "D", ",", "R", "u", "l", "e", "N", "a", "m", "e", ",", "R", "e", "a", "s", "o", "n">>

\* the %v verb on a bool
FormatBool(b) == IF b THEN <<"t", "r", "u", "e">> ELSE <<"f", "a", "l", "s", "e">>

\* the line fmt.Sprintf builds in LogEvent (lines 200-213) and in ExportCSV
\* (lines 291-304): the twelve fields as they are, joined by commas
CSVLine(e) ==
  Join(<<e.Timestamp, e.EventID, e.EventType, e.Severity, e.SourceIP, e.Method,
         e.URL, Itoa(e.StatusCode), FormatBool(e.Blocked), e.RuleID, e.RuleName,
         e.Reason>>, <<",">>) \o <<"\n">>

RECURSIVE JSONEscape(_)
\* the escapes of encoding/json for the characters of the model's texts
JSONEscape(str) ==
  IF Len(str) = 0 THEN <<>>
  ELSE (CASE str[1] = "\"" -> <<"\\", "\"">>
          [] str[1] = "\\" -> <<"\\", "\\">>
          [] str[1] = "\n" -> <<"\\", "n">>
          [] OTHER -> <<str[1]>>) \o JSONEscape(Tail(str))

\* a JSON string
JSONString(str) == <<"\"">> \o JSONEscape(str) \o <<"\"">>

\* "key":value
JSONMember(key, value) == JSONString(key) \o <<":">> \o value

\* json.Marshal(event): the members of StructuredEvent in field order; a
\* member tagged omitempty is left out when it is empty (the fields the
\* model does not carry have their zero value)
MarshalEvent(e) ==
  LET members ==
        << JSONMember(<<"t", "i", "m", "e", "s", "t", "a", "m", "p">>, JSONString(e.Timestamp)),
           JSONMember(<<"e", "v", "e", "n", "t", "_", "i", "d">>, JSONString(e.EventID)),
           JSONMember(<<"e", "v", "e", "n", "t", "_", "t", "y", "p", "e">>, JSONString(e.EventType)),
           JSONMember(<<"s", "e", "v", "e", "r", "i", "t", "y">>, JSONString(e.Severity)),
           JSONMember(<<"s", "o", "u", "r", "c", "e", "_", "i", "p">>, JSONString(e.SourceIP)),
           JSONMember(<<"d", "e", "s", "t", "i", "n", "a", "t", "i", "o", "n", "_", "i", "p">>, JSONString(<<>>)),
           JSONMember(<<"m", "e", "t", "h", "o", "d">>, JSONString(e.Method)),
           JSONMember(<<"u", "r", "l">>, JSONString(e.URL)),
           JSONMember(<<"u", "s", "e", "r", "_", "a", "g", "e", "n", "t">>, JSONString(<<>>)),
           JSONMember(<<"c", "o", "n", "t", "e", "n", "t", "_", "t", "y", "p", "e">>, JSONString(<<>>)),
           JSONMember(<<"r", "e", "q", "u", "e", "s", "t", "_", "s", "i", "z", "e">>, <<"0">>),
           JSONMember(<<"r", "e", "s", "p", "o", "n", "s", "e", "_", "s", "i", "z", "e">>, <<"0">>),
           JSONMember(<<"s", "t", "a", "t", "u", "s", "_", "c", "o", "d", "e">>, Itoa(e.StatusCode)) >>
        \o (IF e.RuleID = <<>> THEN <<>>
            ELSE <<JSONMember(<<"r", "u", "l", "e", "_", "i", "d">>, JSONString(e.RuleID))>>)
        \o (IF e.RuleName = <<>> THEN <<>>
            ELSE <<JSONMember(<<"r", "u", "l", "e", "_", "n", "a", "m", "e">>, JSONString(e.RuleName))>>)
        \o <<JSONMember(<<"b", "l", "o", "c", "k", "e", "d">>, FormatBool(e.Blocked))>>
        \o (IF e.Reason = <<>> THEN <<>>
            ELSE <<JSONMember(<<"r", "e", "a", "s", "o", "n">>, JSONString(e.Reason))>>)
        \o <<JSONMember(<<"r", "e", "s", "p", "o", "n", "s", "e", "_", "t", "i", "m", "e", "_", "m", "s">>, <<"0">>)>>
  IN <<"{">> \o Join(members, <<",">>) \o <<"}">>

\* a variant of the array export: the last event is left out
MarshalAllButLast(ring) == [i \in 1..(Len(ring) - 1) |-> MarshalEvent(ring[i])]

\* json.MarshalIndent(sl.events, "", "  ") as the list of its elements
MarshalEvents(ring) == [i \in 1..Len(ring) |-> MarshalEvent(ring[i])]

\* the bytes of a file: its chunks one after the other
RECURSIVE Bytes(_)
Bytes(disk) == IF Len(disk) = 0 THEN <<>> ELSE Head(disk) \o Bytes(Tail(disk))

\* the lines of a file: its bytes cut after every newline
RECURSIVE LinesOf(_)
LinesOf(bytes) ==
  LET i == IndexOf(bytes, "\n") IN
  IF Len(bytes) = 0 THEN <<>>
  ELSE IF i = 0 THEN <<bytes>>
  ELSE <<SubSeq(bytes, 1, i)>> \o LinesOf(SubSeq(bytes, i + 1, Len(bytes)))

\* File.WriteString: the chunk reaches an open file unless the write fails; a
\* closed file takes nothing (os.ErrClosed)
WriteString(handle, disk, chunk, ok) ==
  IF handle = "open" /\ ok THEN Append(disk, chunk) ELSE disk

\* whether a write on the handle reports an error
WriteError(handle, ok) == ~(handle = "open" /\ ok)

\* the results a write can have
WriteResults == IF faulty THEN BOOLEAN ELSE {TRUE}

\* a variant of the eviction: the newest event is dropped
EvictNewest(ring, max) ==
  IF Len(ring) > max THEN SubSeq(ring, 1, Len(ring) - 1) ELSE ring

\* LogEvent, lines 188-190: the oldest event leaves when the bound is exceeded
Evict(ring, max) == IF Len(ring) > max THEN Tail(ring) ELSE ring

\* a variant of the mutex: Lock never waits
CanLockAlways(t) == TRUE

\* sl.mu.Lock() returns only when nobody holds the mutex
CanLock(t) == mu = NoHolder

\* a variant of the release: the mutex stays held after a failed write
UnlockOnSuccess(t, failed) == IF failed THEN t ELSE NoHolder

\* defer sl.mu.Unlock(): the mutex is released however the call went
DeferredUnlock(t, failed) == NoHolder

\* a variant of the test for a new file: every file counts as new
IsNewAlways(disk) == TRUE

\* fi.Size() == 0, line 167: the file is new
IsNew(disk) == Len(Bytes(disk)) = 0

\* NewStructuredLogger, lines 139-174, on the files as they are: the ring is
\* empty, each file with a path is opened for appending, and the header goes
\* to a tabular file that is empty
NewStructuredLogger(useJSON, useCSV, max) ==
  /\ events' = <<>>
  /\ maxEvents' = max
  /\ mu' = NoHolder
  /\ jsonFile' = IF useJSON THEN "open" ELSE "nil"
  /\ csvFile' = IF useCSV THEN "open" ELSE "nil"
  /\ jsonDisk' = jsonDisk
  /\ \E ok \in WriteResults :
       csvDisk' = IF useCSV /\ IsNew(csvDisk)
                  THEN WriteString("open", csvDisk, CSVHeader \o <<"\n">>, ok)
                  ELSE csvDisk
  /\ accepted' = <<>>
  /\ lost' = {}

\* the state right after the first NewStructuredLogger of the process, with
\* maxEvents from maxes; useJSON and useCSV say whether a path was given
SinkFresh(maxes, useJSON, useCSV) ==
  /\ maxEvents \in maxes
  /\ events = <<>>
  /\ mu = NoHolder
  /\ jsonFile \in {IF b THEN "open" ELSE "nil" : b \in useJSON}
  /\ csvFile \in {IF b THEN "open" ELSE "nil" : b \in useCSV}
  /\ jsonDisk = <<>>
  /\ csvDisk = IF csvFile = "open" THEN <<CSVHeader \o <<"\n">>>> ELSE <<>>
  /\ tpc = [t \in Threads |-> "idle"]
  /\ tev = [t \in Threads |-> NoEvent]
  /\ tring = [t \in Threads |-> <<>>]
  /\ tfailed = [t \in Threads |-> FALSE]
  /\ exported = NoExport
  /\ snapshot = NoSnapshot
  /\ accepted = <<>>
  /\ lost = {}
  /\ calls = 0

\* a sink with any of its files, writes do not fail
InitSink ==
  /\ EngineFresh
  /\ DryRun = FALSE /\ Interactive = FALSE
  /\ ProxyIdle
  /\ AnalyzerFresh
  /\ ToolsIdle
  /\ SinkFresh(0..MaxRing, BOOLEAN, BOOLEAN)
  /\ faulty = FALSE

\* a sink that keeps its events in memory only: NewStructuredLogger("", "", n)
InitRing ==
  /\ EngineFresh
  /\ DryRun = FALSE /\ Interactive = FALSE
  /\ ProxyIdle
  /\ AnalyzerFresh
  /\ ToolsIdle
  /\ SinkFresh(0..MaxRing, {FALSE}, {FALSE})
  /\ faulty = FALSE

\* a sink with a tabular file
InitLifecycle ==
  /\ EngineFresh
  /\ DryRun = FALSE /\ Interactive = FALSE
  /\ ProxyIdle
  /\ AnalyzerFresh
  /\ ToolsIdle
  /\ SinkFresh({MaxRing}, BOOLEAN, {TRUE})
  /\ faulty = FALSE

\* LogEvent, lines 177-190: the mutex is taken, a zero timestamp is replaced
\* by the current time, the event is appended and the ring cut to its bound
LogBegin(t, e) ==
  /\ tpc[t] = "idle"
  /\ calls < MaxCalls
  /\ CanLock(t)
  /\ mu' = t
  /\ calls' = calls + 1
  /\ \E ev \in {IF e.Timestamp = ZeroTime THEN [e EXCEPT !.Timestamp = NowTime]
                ELSE e} :
       /\ tev' = [tev EXCEPT ![t] = ev]
       /\ events' = Evict(Append(events, ev), maxEvents)
       /\ accepted' = Append(accepted, ev)
  /\ tfailed' = [tfailed EXCEPT ![t] = FALSE]
  /\ tpc' = [tpc EXCEPT ![t] = "json"]
  /\ UNCHANGED <<engineVars, proxyVars, analysisVars, toolVars, maxEvents, jsonFile, csvFile, jsonDisk,
                 csvDisk, tring, exported, snapshot, lost, faulty>>

\* the position in accepted of the event of a LogEvent call in progress
RECURSIVE PositionOf(_, _)
PositionOf(t, i) ==
  IF i < 1 THEN 0
  ELSE IF accepted[i] = tev[t] THEN i ELSE PositionOf(t, i - 1)

\* LogEvent, lines 192-196: the event goes to the JSON file as one line; the
\* results of Marshal and of WriteString are dropped
LogJSON(t) ==
  /\ tpc[t] = "json"
  /\ \E ok \in WriteResults :
       IF jsonFile # "nil"
       THEN /\ jsonDisk' = WriteString(jsonFile, jsonDisk,
                                       MarshalEvent(tev[t]) \o <<"\n">>, ok)
            /\ tfailed' = [tfailed EXCEPT ![t] = @ \/ WriteError(jsonFile, ok)]
            /\ lost' = IF WriteError(jsonFile, ok)
                       THEN lost \cup {PositionOf(t, Len(accepted))} ELSE lost
       ELSE UNCHANGED <<jsonDisk, tfailed, lost>>
  /\ tpc' = [tpc EXCEPT ![t] = "csv"]
  /\ UNCHANGED <<engineVars, proxyVars, analysisVars, toolVars, events, maxEvents, mu, jsonFile, csvFile,
                 csvDisk, tev, tring, exported, snapshot, accepted, calls, faulty>>

\* LogEvent, lines 198-223: the event goes to the tabular file as one line,
\* is printed, and the deferred Unlock releases the mutex; LogEvent returns nil
LogCSV(t) ==
  /\ tpc[t] = "csv"
  /\ \E ok \in WriteResults :
       /\ IF csvFile # "nil"
          THEN /\ csvDisk' = WriteString(csvFile, csvDisk, CSVLine(tev[t]), ok)
               /\ lost' = IF WriteError(csvFile, ok)
                          THEN lost \cup {PositionOf(t, Len(accepted))} ELSE lost
          ELSE UNCHANGED <<csvDisk, lost>>
       /\ mu' = DeferredUnlock(t, tfailed[t] \/ (csvFile # "nil" /\ WriteError(csvFile, ok)))
  /\ tfailed' = [tfailed EXCEPT ![t] = FALSE]
  /\ tev' = [tev EXCEPT ![t] = NoEvent]
  /\ tpc' = [tpc EXCEPT ![t] = "idle"]
  /\ UNCHANGED <<engineVars, proxyVars, analysisVars, toolVars, events, maxEvents, jsonFile, csvFile,
                 jsonDisk, tring, exported, snapshot, accepted, calls, faulty>>

\* ExportJSON, lines 258-262, and ExportCSV, lines 275-290: the mutex is taken
\* and the export works on sl.events as it is now
ExportBegin(t, kind) ==
  /\ tpc[t] = "idle"
  /\ CanLock(t)
  /\ mu' = t
  /\ tring' = [tring EXCEPT ![t] = events]
  /\ tpc' = [tpc EXCEPT ![t] = kind]
  /\ UNCHANGED <<engineVars, proxyVars, analysisVars, toolVars, events, maxEvents, jsonFile, csvFile,
                 jsonDisk, csvDisk, tev, tfailed, exported, snapshot, accepted,
                 lost, calls, faulty>>

\* ExportJSON, lines 262-271 (the array goes to the file in one WriteFile), and
\* ExportCSV, lines 279-308 (the file is created anew, the header and one line
\* per event follow); the deferred Unlock releases the mutex
ExportEnd(t) ==
  /\ tpc[t] \in {"export_json", "export_csv"}
  /\ exported' =
       [kind |-> tpc[t],
        content |-> IF tpc[t] = "export_json"
                    THEN MarshalEvents(tring[t])
                    ELSE <<CSVHeader \o <<"\n">>>>
                         \o [i \in 1..Len(tring[t]) |-> CSVLine(tring[t][i])],
        ring |-> tring[t]]
  /\ mu' = DeferredUnlock(t, FALSE)
  /\ tring' = [tring EXCEPT ![t] = <<>>]
  /\ tpc' = [tpc EXCEPT ![t] = "idle"]
  /\ UNCHANGED <<engineVars, proxyVars, analysisVars, toolVars, events, maxEvents, jsonFile, csvFile,
                 jsonDisk, csvDisk, tev, tfailed, snapshot, accepted, lost,
                 calls, faulty>>

\* GetEvents, lines 312-319: a copy of the ring
GetEvents(ring) == [i \in 1..Len(ring) |-> ring[i]]

RECURSIVE GetEventsBySeverity(_, _)
\* GetEventsBySeverity, lines 322-333
GetEventsBySeverity(ring, severity) ==
  IF Len(ring) = 0 THEN <<>>
  ELSE (IF Head(ring).Severity = severity THEN <<Head(ring)>> ELSE <<>>)
       \o GetEventsBySeverity(Tail(ring), severity)

RECURSIVE GetAllowedEvents(_)
\* a variant of the blocked filter: the events that were not blocked
GetAllowedEvents(ring) ==
  IF Len(ring) = 0 THEN <<>>
  ELSE (IF ~Head(ring).Blocked THEN <<Head(ring)>> ELSE <<>>)
       \o GetAllowedEvents(Tail(ring))

RECURSIVE GetBlockedEvents(_)
\* GetBlockedEvents, lines 336-347
GetBlockedEvents(ring) ==
  IF Len(ring) = 0 THEN <<>>
  ELSE (IF Head(ring).Blocked THEN <<Head(ring)>> ELSE <<>>)
       \o GetBlockedEvents(Tail(ring))

RECURSIVE GetEventsByRule(_, _)
\* GetEventsByRule, lines 350-361
GetEventsByRule(ring, ruleID) ==
  IF Len(ring) = 0 THEN <<>>
  ELSE (IF Head(ring).RuleID = ruleID THEN <<Head(ring)>> ELSE <<>>)
       \o GetEventsByRule(Tail(ring), ruleID)

\* the queries callers make: the operation and its argument
Queries ==
  { <<"all", <<>>>>, <<"blocked", <<>>>>,
    <<"severity", <<"h", "i", "g", "h">>>>, <<"severity", <<"l", "o", "w">>>>,
    <<"rule", <<"1", "0", "0", "5">>>>, <<"rule", <<>>>> }

\* one query operation, from Lock to Unlock: the slice it returns
Query(t, q) ==
  /\ tpc[t] = "idle"
  /\ CanLock(t)
  /\ snapshot' =
       [kind |-> q[1], arg |-> q[2], ring |-> events,
        result |-> CASE q[1] = "all" -> GetEvents(events)
                     [] q[1] = "blocked" -> GetBlockedEvents(events)
                     [] q[1] = "severity" -> GetEventsBySeverity(events, q[2])
                     [] q[1] = "rule" -> GetEventsByRule(events, q[2])]
  /\ UNCHANGED <<engineVars, proxyVars, analysisVars, toolVars, events, maxEvents, mu, jsonFile, csvFile,
                 jsonDisk, csvDisk, tpc, tev, tring, tfailed, exported, accepted,
                 lost, calls, faulty>>

\* Close, lines 364-377: both files are closed under the mutex; the handles
\* stay in the struct
Close(t) ==
  /\ tpc[t] = "idle"
  /\ CanLock(t)
  /\ jsonFile' = IF jsonFile = "nil" THEN "nil" ELSE "closed"
  /\ csvFile' = IF csvFile = "nil" THEN "nil" ELSE "closed"
  /\ UNCHANGED <<engineVars, proxyVars, analysisVars, toolVars, events, maxEvents, mu, jsonDisk, csvDisk,
                 tpc, tev, tring, tfailed, exported, snapshot, accepted, lost,
                 calls, faulty>>

\* the caller opens the next sink on the same paths, whether or not it has
\* closed the last one, when no call on the last one is in progress
Reopen ==
  /\ \A t \in Threads : tpc[t] = "idle"
  /\ NewStructuredLogger(jsonFile # "nil", csvFile # "nil", maxEvents)
  /\ UNCHANGED <<engineVars, proxyVars, analysisVars, toolVars, tpc, tev, tring, tfailed, exported,
                 snapshot, calls, faulty>>

\* concurrent LogEvent calls on one sink
NextSink ==
  \/ \E t \in Threads, e \in EventPool : LogBegin(t, e)
  \/ \E t \in Threads : LogJSON(t)
  \/ \E t \in Threads : LogCSV(t)

SpecSink == InitSink /\ [][NextSink]_vars

\* concurrent LogEvent calls and exports on one sink
NextExport ==
  \/ \E t \in Threads, e \in EventPool : LogBegin(t, e)
  \/ \E t \in Threads : LogJSON(t)
  \/ \E t \in Threads : LogCSV(t)
  \/ \E t \in Threads, kind \in {"export_json", "export_csv"} : ExportBegin(t, kind)
  \/ \E t \in Threads : ExportEnd(t)

SpecExport == InitRing /\ [][NextExport]_vars

\* concurrent LogEvent calls and queries on one sink
NextQuery ==
  \/ \E t \in Threads, e \in EventPool : LogBegin(t, e)
  \/ \E t \in Threads : LogJSON(t)
  \/ \E t \in Threads : LogCSV(t)
  \/ \E t \in Threads, q \in Queries : Query(t, q)

SpecQuery == InitRing /\ [][NextQuery]_vars

\* sinks opened, used and closed one after the other on the same paths
NextLifecycle ==
  \/ \E t \in Threads, e \in EventPool : LogBegin(t, e)
  \/ \E t \in Threads : LogJSON(t)
  \/ \E t \in Threads : LogCSV(t)
  \/ \E t \in Threads : ExportBegin(t, "export_csv")
  \/ \E t \in Threads : ExportEnd(t)
  \/ \E t \in Threads : Close(t)
  \/ Reopen

SpecLifecycle == InitLifecycle /\ [][NextLifecycle]_vars

\* a sink with both files, writes may fail
InitFaulty ==
  /\ EngineFresh
  /\ DryRun = FALSE /\ Interactive = FALSE
  /\ ProxyIdle
  /\ AnalyzerFresh
  /\ ToolsIdle
  /\ SinkFresh({MaxRing}, {TRUE}, {TRUE})
  /\ faulty = TRUE

NextFaulty ==
  \/ \E t \in Threads, e \in EventPool : LogBegin(t, e)
  \/ \E t \in Threads : LogJSON(t)
  \/ \E t \in Threads : LogCSV(t)
  \/ \E t \in Threads : Query(t, <<"all", <<>>>>)
  \/ \E t \in Threads : Close(t)

SpecFaulty == InitFaulty /\ [][NextFaulty]_vars

(***************************************************************************)
(* The efficacy analyser (pkg/analysis/efficacy.go).                       *)
(***************************************************************************)
\* the values of an event, a map[string]interface{}, with their dynamic type
Str(text) == [kind |-> "string", val |-> text]
Bool(b) == [kind |-> "bool", val |-> b]
Float(n) == [kind |-> "float64", val |-> n]

ID1001 == <<"1", "0", "0", "1">>
ID1005 == <<"1", "0", "0", "5">>

\* the events given to AddEvent: a request rule 1001 blocked, one it matched
\* and let pass, a request rule 1005 blocked with its response time, a request
\* no rule matched, and an event of rule 1005 without a blocked key
EventTP == [rule_id |-> Str(ID1001), blocked |-> Bool(TRUE)]
EventFP == [rule_id |-> Str(ID1001), blocked |-> Bool(FALSE)]
EventSlow == [rule_id |-> Str(ID1005), blocked |-> Bool(TRUE),
              response_time_ms |-> Float(12)]
EventNoRule == [rule_id |-> Str(<<>>), blocked |-> Bool(FALSE)]
EventNoFlag == [rule_id |-> Str(ID1005)]

AnalyzerEvents == {EventTP, EventFP, EventSlow, EventNoRule, EventNoFlag}

\* a type assertion event[key].(kind) that succeeds
Has(event, key, kind) == key \in DOMAIN event /\ event[key].kind = kind

RECURSIVE GCD(_, _)
GCD(a, b) == IF b = 0 THEN a ELSE GCD(b, a % b)

\* float64(n) / float64(d) for d > 0, kept as the exact fraction in lowest
\* terms (the counts of the model are far below the precision of a float64)
Quot(n, d) == [num |-> n \div GCD(n, d), den |-> d \div GCD(n, d)]

\* the zero value of a float64 field
Zero == [num |-> 0, den |-> 1]

Less(a, b) == a.num * b.den < b.num * a.den

Plus(a, b) == Quot(a.num * b.den + b.num * a.den, a.den * b.den)

Times(a, b) == Quot(a.num * b.num, a.den * b.den)

Over(a, b) == Quot(a.num * b.den, a.den * b.num)

\* a variant of the TP test: an event without a blocked flag counts as blocked
BlockedUnlessFalse(event) ==
  ~Has(event, "blocked", "bool") \/ event.blocked.val

\* calculateRuleMetrics, line 124: blocked, ok := event["blocked"].(bool); ok && blocked
Blocked(event) == Has(event, "blocked", "bool") /\ event.blocked.val

RECURSIVE CountBlocked(_)
\* calculateRuleMetrics, lines 122-128: TruePositives after the loop
CountBlocked(evs) ==
  IF Len(evs) = 0 THEN 0
  ELSE (IF Blocked(Head(evs)) THEN 1 ELSE 0) + CountBlocked(Tail(evs))

RECURSIVE TotalLatency(_)
\* calculateRuleMetrics, lines 131-139: totalLatency after the loop
TotalLatency(evs) ==
  IF Len(evs) = 0 THEN 0
  ELSE (IF Has(Head(evs), "response_time_ms", "float64")
        THEN Head(evs).response_time_ms.val ELSE 0) + TotalLatency(Tail(evs))

\* calculateRuleMetrics, lines 172-174
PrecisionOf(tp, fp) == IF tp + fp > 0 THEN Quot(tp, tp + fp) ELSE Zero

\* calculateRuleMetrics, lines 176-178
RecallOf(tp, fn) == IF tp + fn > 0 THEN Quot(tp, tp + fn) ELSE Zero

\* a variant of F1: the product without the division by the sum
F1Product(precision, recall) == Times(Quot(2, 1), Times(precision, recall))

\* calculateRuleMetrics, lines 180-182
F1Of(precision, recall) ==
  IF Less(Zero, Plus(precision, recall))
  THEN Over(Times(Quot(2, 1), Times(precision, recall)), Plus(precision, recall))
  ELSE Zero

\* calculateRuleMetrics, lines 185-187
BlockRateOf(tp, total) == IF total > 0 THEN Quot(100 * tp, total) ELSE Zero

\* calculateRuleMetrics, lines 103-200, for the fields the model keeps; nothing
\* assigns TrueNegatives, FalseNegatives, Specificity or Accuracy
calculateRuleMetrics(ruleID, evs) ==
  LET tp == CountBlocked(evs)
      fp == Len(evs) - tp
      precision == PrecisionOf(tp, fp)
      recall == RecallOf(tp, 0)
  IN [RuleID |-> ruleID,
      TotalTriggers |-> Len(evs),
      TruePositives |-> tp,
      FalsePositives |-> fp,
      TrueNegatives |-> 0,
      FalseNegatives |-> 0,
      Precision |-> precision,
      Recall |-> recall,
      F1Score |-> F1Of(precision, recall),
      Specificity |-> Zero,
      Accuracy |-> Zero,
      AvgLatencyMs |-> IF Len(evs) > 0 THEN Quot(TotalLatency(evs), Len(evs))
                       ELSE Zero,
      BlockRate |-> BlockRateOf(tp, Len(evs)),
      Recommendations |-> <<>>]

\* the texts the recommendations begin with
HighFalsePositiveRate == "High false positive rate"
LowRecallRate == "Low recall rate"
HighAverageLatency == "High average latency"
LowBlockRate == "Low block rate suggests many false positives"
VeryHighBlockRate == "Very high block rate"

\* a variant of the precision threshold: 0.8 itself is below it
AtOrBelowPrecisionThreshold(precision) == ~Less(Quot(4, 5), precision)

\* generateRecommendations, line 232: metrics.Precision < 0.8
BelowPrecisionThreshold(precision) == Less(precision, Quot(4, 5))

\* generateRecommendations, lines 228-262: the recommendations in the order
\* they are appended, each as its leading text
generateRecommendations(m) ==
  (IF m.FalsePositives > 0 /\ BelowPrecisionThreshold(m.Precision)
   THEN <<HighFalsePositiveRate>> ELSE <<>>)
  \o (IF Less(m.Recall, Quot(7, 10)) /\ Less(Zero, m.Recall)
      THEN <<LowRecallRate>> ELSE <<>>)
  \o (IF Less(Quot(5, 1), m.AvgLatencyMs) THEN <<HighAverageLatency>> ELSE <<>>)
  \o (IF Less(m.BlockRate, Quot(50, 1)) /\ m.TotalTriggers > 100
      THEN <<LowBlockRate>> ELSE <<>>)
  \o (IF Less(Quot(95, 1), m.BlockRate) /\ m.TotalTriggers > 100
      THEN <<VeryHighBlockRate>> ELSE <<>>)

\* AnalyzeRules, lines 83-86: the rule an event is grouped under, <<>> for an
\* event that is skipped
RuleIDOf(event) ==
  IF Has(event, "rule_id", "string") THEN event.rule_id.val ELSE <<>>

\* AnalyzeRules, lines 80-90: ruleEvents
RuleEvents(evs) ==
  [id \in {RuleIDOf(evs[i]) : i \in 1..Len(evs)} \ {<<>>} |->
     LET OfRule(e) == RuleIDOf(e) = id IN SelectSeq(evs, OfRule)]

\* AddEvent, lines 60-71
AddEvent(event) ==
  /\ Len(eaEvents) < MaxBatch
  /\ eaEvents' = Append(eaEvents, event)
  /\ eaAnalyzed' = FALSE
  /\ UNCHANGED <<engineVars, proxyVars, sinkVars, toolVars, eaRuleMetrics, comparison,
                 ipCounts, topBlocked>>

\* a variant of the assignment: the new counts are added to the counts of the
\* entry that is there
StoreAdded(ruleMetrics, ruleID, metrics) ==
  IF ruleID \in DOMAIN ruleMetrics
  THEN [metrics EXCEPT
          !.TotalTriggers = @ + ruleMetrics[ruleID].TotalTriggers,
          !.TruePositives = @ + ruleMetrics[ruleID].TruePositives,
          !.FalsePositives = @ + ruleMetrics[ruleID].FalsePositives]
  ELSE metrics

\* AnalyzeRules, line 96: ea.ruleMetrics[ruleID] = metrics
Store(ruleMetrics, ruleID, metrics) == metrics

\* AnalyzeRules, lines 80-97, on the events and the metrics of an analyser:
\* the metrics of every rule with events are computed anew and stored; the
\* other entries of ruleMetrics stay
Analysis(evs, ruleMetrics) ==
  LET groups == RuleEvents(evs)
  IN [id \in DOMAIN ruleMetrics \cup DOMAIN groups |->
        IF id \in DOMAIN groups
        THEN LET metrics == calculateRuleMetrics(id, groups[id])
             IN Store(ruleMetrics, id,
                      [metrics EXCEPT
                         !.Recommendations = generateRecommendations(metrics)])
        ELSE ruleMetrics[id]]

\* AnalyzeRules, lines 74-100
AnalyzeRules ==
  /\ eaRuleMetrics' = Analysis(eaEvents, eaRuleMetrics)
  /\ eaAnalyzed' = TRUE
  /\ UNCHANGED <<engineVars, proxyVars, sinkVars, toolVars, eaEvents, comparison,
                 ipCounts, topBlocked>>

InitAnalysis ==
  /\ EngineFresh
  /\ DryRun = FALSE /\ Interactive = FALSE
  /\ ProxyIdle
  /\ AnalyzerFresh
  /\ ToolsIdle
  /\ SinkIdle

NextAnalysis ==
  \/ \E event \in AnalyzerEvents : AddEvent(event)
  \/ AnalyzeRules

SpecAnalysis == InitAnalysis /\ [][NextAnalysis]_vars

\* a variant of the subtraction: the second value minus the first
MinusReversed(a, b) == Quot(b.num * a.den - a.num * b.den, a.den * b.den)

\* float64 subtraction
Minus(a, b) == Quot(a.num * b.den - b.num * a.den, a.den * b.den)

ID9999 == <<"9", "9", "9", "9">>

\* the rule ids given to CompareRules: two rules of the events and a rule no
\* event names
CompareIDs == {ID1001, ID1005, ID9999}

\* the events of the logs the compare command loads
CompareEvents == {EventTP, EventFP, EventSlow}

\* CompareRules, lines 330-365: the map it returns, without the rule names
CompareRulesOf(ruleMetrics, ruleID1, ruleID2) ==
  IF ruleID1 \notin DOMAIN ruleMetrics \/ ruleID2 \notin DOMAIN ruleMetrics
  THEN NilComparison
  ELSE LET metrics1 == ruleMetrics[ruleID1]
           metrics2 == ruleMetrics[ruleID2]
       IN [found |-> TRUE,
           rule_1 |-> [id |-> metrics1.RuleID,
                       f1_score |-> metrics1.F1Score,
                       precision |-> metrics1.Precision,
                       recall |-> metrics1.Recall,
                       block_rate |-> metrics1.BlockRate],
           rule_2 |-> [id |-> metrics2.RuleID,
                       f1_score |-> metrics2.F1Score,
                       precision |-> metrics2.Precision,
                       recall |-> metrics2.Recall,
                       block_rate |-> metrics2.BlockRate],
           difference |->
             [f1_score_diff |-> Minus(metrics1.F1Score, metrics2.F1Score),
              precision_diff |-> Minus(metrics1.Precision, metrics2.Precision),
              recall_diff |-> Minus(metrics1.Recall, metrics2.Recall),
              block_rate_diff |-> Minus(metrics1.BlockRate, metrics2.BlockRate)]]

\* CompareRules, lines 330-365
CompareRules(ruleID1, ruleID2) ==
  /\ comparison' = [ruleID1 |-> ruleID1, ruleID2 |-> ruleID2,
                    result |-> CompareRulesOf(eaRuleMetrics, ruleID1, ruleID2)]
  /\ UNCHANGED <<engineVars, proxyVars, sinkVars, toolVars,
                 eaEvents, eaRuleMetrics, eaAnalyzed, ipCounts, topBlocked>>

\* the compare command (cmd part_003, lines 100-137): events are added, the
\* rules analysed and two of them compared
NextCompare ==
  \/ \E event \in CompareEvents : AddEvent(event)
  \/ AnalyzeRules
  \/ \E ruleID1, ruleID2 \in CompareIDs : CompareRules(ruleID1, ruleID2)

SpecCompare == InitAnalysis /\ [][NextCompare]_vars

\* calculateRuleMetrics, lines 195 and 198: the n given to getTopN
TopN == 10

\* how often one source address occurs in the events of a rule
KeyCounts == {1, 2}

Min(a, b) == IF a < b THEN a ELSE b

\* a variant of getTopN's choice: of equal counts the first seen is kept
TopFirstSeen(counts, n) ==
  {{k \in DOMAIN counts :
      Cardinality({j \in DOMAIN counts :
                     counts[j] > counts[k] \/ (counts[j] = counts[k] /\ j < k)})
        < n}}

\* getTopN, lines 204-224: the key sets the first n entries of sorted can
\* have. The map is ranged over in an unspecified order (210-212) and
\* sort.Slice is not stable (214-216), so entries of equal Value stand in any
\* order: sorted is any arrangement with the values descending
TopChoices(counts, n) ==
  {keys \in SUBSET DOMAIN counts :
     /\ Cardinality(keys) = Min(Len(counts), n)
     /\ \A k \in keys : \A j \in DOMAIN counts \ keys : counts[j] <= counts[k]}

\* getTopN(ipCounts, 10), line 195
getTopN ==
  /\ ~topBlocked.done
  /\ \E keys \in TopChoices(ipCounts, TopN) :
       topBlocked' = [done |-> TRUE, keys |-> keys]
  /\ UNCHANGED <<engineVars, proxyVars, sinkVars, toolVars,
                 eaEvents, eaRuleMetrics, eaAnalyzed, comparison, ipCounts>>

\* calculateRuleMetrics, lines 146-148: ipCounts after the loop over the events
InitTopN ==
  /\ EngineFresh
  /\ DryRun = FALSE /\ Interactive = FALSE
  /\ ProxyIdle
  /\ SinkIdle
  /\ eaEvents = <<>>
  /\ eaRuleMetrics = [id \in {} |-> 0]
  /\ eaAnalyzed = FALSE
  /\ comparison = NoComparison
  /\ \E n \in 1..MaxKeys : ipCounts \in [1..n -> KeyCounts]
  /\ ToolsIdle
  /\ topBlocked = NoTop

NextTopN == getTopN

SpecTopN == InitTopN /\ [][NextTopN]_vars

\* the characters of the data given to calculateEntropy
EntropyAlphabet == {"a", "b", RuneE9, Rune20AC}

\* Rule.Match, line 495: calculateEntropy(data)
MatchEntropy ==
  /\ entropy = NoEntropy
  /\ entropy' = calculateEntropy(matchData)
  /\ UNCHANGED <<engineVars, proxyVars, sinkVars, analysisVars, loadVars,
                 checkVars, matchData>>

InitEntropy ==
  /\ EngineFresh
  /\ DryRun = FALSE /\ Interactive = FALSE
  /\ ProxyIdle
  /\ SinkIdle
  /\ AnalyzerFresh
  /\ checking = [t \in Slots |-> NotChecking]
  /\ \E n \in 0..MaxData : matchData \in [1..n -> EntropyAlphabet]
  /\ entropy = NoEntropy
  /\ logFile = [array |-> FALSE, entries |-> <<>>]
  /\ loadPC = "idle"
  /\ decScanp = 0
  /\ decErr = FALSE
  /\ loaded = <<>>

NextEntropy == MatchEntropy

SpecEntropy == InitEntropy /\ [][NextEntropy]_vars

(***************************************************************************)
(* The loader of event logs (loadEventsFromFile, cmd part_003).  A file is *)
(* a sequence of entries, each a JSON text on a line of its own, or one    *)
(* JSON array of such texts.  Of encoding/json the model keeps what the    *)
(* loader relies on: Unmarshal accepts one array of objects; Decoder.More  *)
(* reports whether a byte other than white space, "]" and "}" is left at   *)
(* scanp; Decoder.Decode consumes a well-formed value, reports a type      *)
(* error when the value is not an object, and on a syntax error leaves     *)
(* scanp where it is and keeps the error for every later call.             *)
(***************************************************************************)
\* {"rule_id":"1001","blocked":true} and {"rule_id":"1001","blocked":false}
EntryTP == [kind |-> "object", event |-> EventTP]
EntryFP == [kind |-> "object", event |-> EventFP]

\* 42: well-formed JSON that is not an object
EntryNumber == [kind |-> "number", event |-> EventNoRule]

\* {"rule_id":"1001",,}: not JSON
EntryBroken == [kind |-> "broken", event |-> EventNoRule]

Entries == {EntryTP, EntryFP, EntryNumber, EntryBroken}

\* the files given to loadEventsFromFile: entries line by line, or the
\* objects written as one JSON array
LogFiles ==
  {[array |-> FALSE, entries |-> es] :
     es \in UNION {[1..n -> Entries] : n \in 0..MaxLines}}
  \cup {[array |-> TRUE, entries |-> es] :
          es \in UNION {[1..n -> {EntryTP, EntryFP}] : n \in 0..MaxLines}}

RECURSIVE EventsOfEntries(_)
\* the events of the objects among the entries, in their order
EventsOfEntries(es) ==
  IF Len(es) = 0 THEN <<>>
  ELSE (IF Head(es).kind = "object" THEN <<Head(es).event>> ELSE <<>>)
       \o EventsOfEntries(Tail(es))

\* loadEventsFromFile, lines 252-256: the whole file as one JSON array
LoadUnmarshal ==
  /\ loadPC = "unmarshal"
  /\ IF logFile.array
     THEN /\ loaded' = EventsOfEntries(logFile.entries)
          /\ loadPC' = "done"
     ELSE /\ loaded' = <<>>
          /\ loadPC' = "more"
  /\ UNCHANGED <<engineVars, proxyVars, sinkVars, analysisVars, matchVars,
                 checkVars,
                 logFile, decScanp, decErr>>

\* loadEventsFromFile, line 271: for decoder.More()
LoadMore ==
  /\ loadPC = "more"
  /\ loadPC' = IF decScanp < Len(logFile.entries) THEN "decode" ELSE "done"
  /\ UNCHANGED <<engineVars, proxyVars, sinkVars, analysisVars, matchVars,
                 checkVars,
                 logFile, decScanp, decErr, loaded>>

\* loadEventsFromFile, lines 272-276: Decode; on an error continue, else the
\* event is appended
LoadDecode ==
  /\ loadPC = "decode"
  /\ loadPC' = "more"
  /\ IF decErr
     THEN UNCHANGED <<decScanp, decErr, loaded>>
     ELSE LET entry == logFile.entries[decScanp + 1] IN
          CASE entry.kind = "object" ->
                 /\ decScanp' = decScanp + 1
                 /\ loaded' = Append(loaded, entry.event)
                 /\ UNCHANGED decErr
            [] entry.kind = "number" ->
                 /\ decScanp' = decScanp + 1
                 /\ UNCHANGED <<decErr, loaded>>
            [] OTHER ->
                 /\ decErr' = TRUE
                 /\ UNCHANGED <<decScanp, loaded>>
  /\ UNCHANGED <<engineVars, proxyVars, sinkVars, analysisVars, matchVars,
                 checkVars,
                 logFile>>

\* loadEventsFromFile, lines 245-248: the file was read
InitLoad ==
  /\ EngineFresh
  /\ DryRun = FALSE /\ Interactive = FALSE
  /\ ProxyIdle
  /\ SinkIdle
  /\ AnalyzerFresh
  /\ checking = [t \in Slots |-> NotChecking]
  /\ matchData = <<>>
  /\ entropy = NoEntropy
  /\ logFile \in LogFiles
  /\ loadPC = "unmarshal"
  /\ decScanp = 0
  /\ decErr = FALSE
  /\ loaded = <<>>

NextLoad == LoadUnmarshal \/ LoadMore \/ LoadDecode

\* the loader runs on its own: a step that can be taken is taken
SpecLoad == InitLoad /\ [][NextLoad]_vars /\ WF_vars(NextLoad)

(***************************************************************************)
(* Engine.Check called by several goroutines at once, each call followed   *)
(* one loop iteration at a time.  No AddRule runs meanwhile.               *)
(***************************************************************************)
\* the requests served in parallel
ParallelRequests == {ReqBenign, ReqTraversal}

\* the rule lists of the engine: NewEngine alone, or one AddRule before serving
ParallelRules == {addDefaultRules, Append(addDefaultRules, RuleEtcURIPhase)}

\* Engine.Check, line 144: a goroutine enters Check with its request
CheckEnter(t, r) ==
  /\ checking[t].pc = "idle"
  /\ checking' = [checking EXCEPT ![t] =
                    [NotChecking EXCEPT !.pc = "loop", !.r = r,
                                        !.pass = 1, !.index = 1]]
  /\ UNCHANGED <<engineVars, proxyVars, sinkVars, analysisVars, matchVars,
                 loadVars>>

\* Engine.Check, lines 146-184: one iteration of one of the three loops over
\* e.rules, the step from one loop to the next, or the final return
CheckLoop(t) ==
  /\ checking[t].pc = "loop"
  /\ LET c == checking[t] IN
       checking' = [checking EXCEPT ![t] =
         IF c.pass > Len(PhaseOrder)
         THEN [c EXCEPT !.pc = "done", !.decision = DecisionAllow]
         ELSE IF c.index > Len(rules)
         THEN [c EXCEPT !.pass = c.pass + 1, !.index = 1]
         ELSE IF /\ rules[c.index].Phase = PhaseOrder[c.pass]
                 /\ checkRule(rules[c.index], c.r)
                 /\ rules[c.index].Action = ActionBlock
         THEN [c EXCEPT !.pc = "done", !.decision = DecisionBlock,
                        !.reason = Reason(rules[c.index])]
         ELSE [c EXCEPT !.index = c.index + 1]]
  /\ UNCHANGED <<engineVars, proxyVars, sinkVars, analysisVars, matchVars,
                 loadVars>>

InitParallel ==
  /\ rules \in ParallelRules
  /\ addErr = FALSE
  /\ lastReq = NoRequest
  /\ lastDecision = DecisionAllow
  /\ lastReason = <<>>
  /\ DryRun = FALSE /\ Interactive = FALSE
  /\ ProxyIdle
  /\ AnalyzerFresh
  /\ ToolsIdle
  /\ SinkIdle

NextParallel ==
  \/ \E t \in Slots, r \in ParallelRequests : CheckEnter(t, r)
  \/ \E t \in Slots : CheckLoop(t)

SpecParallel == InitParallel /\ [][NextParallel]_vars

Spec == SpecProxy
(***************************************************************************)
(* Properties.                                                             *)
(***************************************************************************)
\* a request whose handler is past Engine.Check
Decided(r) == pc[r] \in {"scan", "forward", "done"}

\* the answer of the WAF itself to a refused request
Refused(r) ==
  /\ pc[r] = "done"
  /\ statusCode[r] = StatusForbidden
  /\ respBody[r] = BodyForbidden
  /\ forwarded[r] = 0

\* C1: in enforce mode (neither --dry-run nor --interactive) every request
\* for which Engine.Check returns Block is answered 403 "Forbidden" and the
\* forwarder is never invoked for it.
C1_EnforceBlockRefused ==
  (~DryRun /\ ~Interactive) =>
    \A r \in Slots :
      (Decided(r) /\ ProxyCheck[req[r]][1] = DecisionBlock) => Refused(r)

\* a blocked request has been refused in enforce mode
C1_Witness ==
  /\ ~DryRun /\ ~Interactive
  /\ \E r \in Slots :
       /\ pc[r] = "done" /\ req[r] = ReqBadBot
       /\ decision[r] = DecisionBlock /\ statusCode[r] = StatusForbidden

\* C2: whenever --dry-run is set every request is handed to the forwarder,
\* whatever Engine.Check returned, and none is answered with the WAF's 403.
C2_DryRunAlwaysForwards ==
  DryRun =>
    \A r \in Slots :
      pc[r] = "done" => (forwarded[r] = 1 /\ ~Refused(r))

\* the operator's input for a prompt is exactly this line
InputIs(r, line) == consumed[r] = line \o <<"\n">>

\* C3: in interactive mode a Block prompts the operator; on input a or A the
\* request is forwarded as an allowed request would be, on any other input
\* (the empty one included) the client gets 403 and the forwarder is not
\* invoked; a request whose decision is Allow is never prompted.
C3_InteractiveAnswer ==
  Interactive =>
    \A r \in Slots :
      /\ (Decided(r) /\ decision[r] = DecisionAllow) =>
           (pc[r] # "scan" /\ consumed[r] = <<>>)
      /\ (pc[r] \in {"forward", "done"} /\ decision[r] = DecisionBlock) =>
           IF InputIs(r, <<"a">>) \/ InputIs(r, <<"A">>)
           THEN pc[r] = "forward" \/ forwarded[r] = 1
           ELSE Refused(r)

\* the requests whose prompt is printed and not answered yet
Awaiting == {r \in Slots : pc[r] = "scan"}

\* C4: in interactive mode at most one request is awaiting operator input
\* at any time: a second blocked request does not print its prompt or read
\* the control channel until the first prompt has been answered.
C4_OnePromptAtATime == Cardinality(Awaiting) <= 1

\* the events of the sink that belong to a request
EventsOf(r) == {i \in 1..Len(events) : events[i].request = r}

\* C5: for every request the proxy has handled (refused, allowed, demoted,
\* approved, denied, or ending in an upstream error) exactly one event is in
\* the event sink.
C5_OneEventPerRequest ==
  \A r \in Slots : pc[r] = "done" => Cardinality(EventsOf(r)) = 1

\* the rank of a phase in the order request-headers, request-URI, request-body
PhaseRank(phase) ==
  CASE phase = PhaseRequestHeaders -> 1
    [] phase = PhaseRequestURI -> 2
    [] phase = PhaseRequestBody -> 3
    [] OTHER -> 4

EvaluatedPhases == {PhaseRequestHeaders, PhaseRequestURI, PhaseRequestBody}

\* rule i of the engine is an enabled block rule of an evaluated phase that
\* matches the request
BlockMatch(i, r) ==
  /\ rules[i].Phase \in EvaluatedPhases
  /\ rules[i].Action = ActionBlock
  /\ checkRule(rules[i], r)

BlockMatches(r) == {i \in 1..Len(rules) : BlockMatch(i, r)}

Checked == lastReq # NoRequest

\* C6: phase order dominance.  When block rules match, the reason Check
\* returns names a matching block rule of the earliest phase (headers, then
\* URI, then body) in which one matches, wherever the rules stand in the list.
C6_PhaseOrderDominance ==
  (Checked /\ BlockMatches(lastReq) # {}) =>
    /\ lastDecision = DecisionBlock
    /\ \E i \in BlockMatches(lastReq) :
         /\ lastReason = Reason(rules[i])
         /\ \A j \in BlockMatches(lastReq) :
              PhaseRank(rules[i].Phase) <= PhaseRank(rules[j].Phase)

\* Check was called with a matching block rule of a later phase standing in
\* the list before a matching block rule of an earlier phase, and the reason
\* names the rule of the earlier phase
C6_Witness ==
  /\ Checked
  /\ \E i, j \in BlockMatches(lastReq) :
       /\ i < j
       /\ PhaseRank(rules[j].Phase) < PhaseRank(rules[i].Phase)
       /\ lastReason = Reason(rules[j])
       /\ lastReason # Reason(rules[i])

\* C7: within one phase the first matching enabled block rule in insertion
\* order decides: Check returns (Block, "Rule <id>: <name>") with the id and
\* name of that rule; when no block rule matches in any phase it returns
\* (Allow, ""); it never returns the Log decision.
C7_FirstMatchInPhase ==
  Checked =>
    /\ lastDecision \in {DecisionAllow, DecisionBlock}
    /\ lastDecision # DecisionLog
    /\ BlockMatches(lastReq) = {} =>
         (lastDecision = DecisionAllow /\ lastReason = <<>>)
    /\ BlockMatches(lastReq) # {} =>
         /\ lastDecision = DecisionBlock
         /\ \E i \in BlockMatches(lastReq) :
              /\ lastReason = <<"R", "u", "l", "e", " ">> \o Itoa(rules[i].ID)
                                \o <<":", " ">> \o rules[i].Name
              /\ \A j \in BlockMatches(lastReq) :
                   rules[j].Phase = rules[i].Phase => i <= j

\* two block rules of one phase with different names match the request and
\* the reason carries the first one
C7_Witness ==
  /\ Checked
  /\ lastDecision = DecisionBlock
  /\ \E i, j \in BlockMatches(lastReq) :
       /\ i < j
       /\ rules[i].Phase = rules[j].Phase
       /\ rules[i].ID # rules[j].ID
       /\ lastReason = Reason(rules[i])

\* the rule list without the rules whose action is log or pass
WithoutLogPass(rs) ==
  SelectSeq(rs, LAMBDA rule : rule.Action \notin {ActionLog, ActionPass})

\* C8: log and pass rules never change the decision: Check returns what it
\* returns on the rule list with all log and pass rules removed.
C8_LogPassNeutral ==
  Checked =>
    <<lastDecision, lastReason>> = Check(WithoutLogPass(rules), lastReq)

\* a matching log rule stands before the matching block rule of the same
\* phase that decided
C8_Witness ==
  /\ Checked
  /\ lastDecision = DecisionBlock
  /\ \E i, j \in 1..Len(rules) :
       /\ i < j
       /\ rules[i].Action = ActionLog /\ rules[i].Enabled
       /\ rules[i].Phase = rules[j].Phase
       /\ rules[i].Target = TargetURI /\ Match(rules[i], lastReq.RequestURI)
       /\ j \in BlockMatches(lastReq)
       /\ lastReason = Reason(rules[j])

\* rule i is an enabled block rule of the request-body phase with target
\* REQUEST_BODY whose operator the buffered body satisfies
BodyRuleSatisfied(i, r) ==
  /\ rules[i].Enabled
  /\ rules[i].Phase = PhaseRequestBody
  /\ rules[i].Target = TargetBody
  /\ rules[i].Action = ActionBlock
  /\ Match(rules[i], r.Body)

\* C9: a REQUEST_BODY rule is matched against the buffered body: when the
\* body satisfies an enabled block rule of the request-body phase, Check
\* returns Block (a POST whose body holds admin' OR 1=1-- is blocked by 1001).
C9_BodyRuleBlocks ==
  (Checked /\ \E i \in 1..Len(rules) : BodyRuleSatisfied(i, lastReq)) =>
    lastDecision = DecisionBlock

\* C10: in enforce mode with the default rules a request whose query string
\* holds a token of the SQLi list (GET /?id=1' OR '1'='1) is answered 403
\* "Forbidden" and the reason starts with "Rule 1001:".
C10_SQLiQueryBlocked ==
  (~DryRun /\ ~Interactive) =>
    \A r \in Slots :
      (pc[r] = "done" /\ \E v \in QueryValues(req[r].RequestURI) : detectSQLi(v)) =>
        /\ statusCode[r] = StatusForbidden
        /\ respBody[r] = BodyForbidden
        /\ HasPrefix(reason[r], <<"R", "u", "l", "e", " ", "1", "0", "0", "1", ":">>)

\* the request target of a request, as the server parsed it
TargetOf(r) == ParseURL(req[r].RequestURI)

\* C11: every request whose decision is Allow is forwarded to the configured
\* origin (scheme and host of the proxy-to URL) with its method, path and body
\* preserved, and the client receives the origin's status and body unchanged.
C11_AllowReachesOrigin ==
  \A r \in Slots :
    (pc[r] = "done" /\ decision[r] = DecisionAllow) =>
      /\ forwarded[r] = 1
      /\ out[r].URL.Scheme = targetURL.Scheme
      /\ out[r].URL.Host = targetURL.Host
      /\ out[r].Method = req[r].Method
      /\ out[r].URL.Path = TargetOf(r).Path
      /\ out[r].Body = req[r].Body
      /\ out[r].result = "ok" =>
           (statusCode[r] = StatusOK /\ respBody[r] = BodyOrigin)

\* C12 as stated: whenever the upstream connection or read fails for a
\* forwarded request the client receives 502 "Bad Gateway".
C12_UpstreamFailure502 ==
  \A r \in Slots :
    (pc[r] = "done" /\ out[r].result \in {"refused", "dial_error", "head_error",
                                          "body_error"}) =>
      (statusCode[r] = 502 /\ respBody[r] = <<"B", "a", "d", " ", "G", "a", "t", "e", "w", "a", "y">>)

\* a free slot the server would use for the next connection
NextFree(s) == pc[s] = "idle" /\ (s > 1 => pc[s - 1] # "idle")

\* C12 (amended): when the round trip of a forwarded request fails (the
\* transport refuses the request, the dial fails or the response head cannot
\* be read) the client receives 502 "Bad Gateway"; the failure is confined to
\* that request: no other request is cut off and the proxy still accepts the
\* next connection.
C12_RoundTripFailure502 ==
  \A r \in Slots :
    (pc[r] = "done" /\ out[r].result \in {"refused", "dial_error", "head_error"}) =>
      /\ statusCode[r] = 502
      /\ respBody[r] = <<"B", "a", "d", " ", "G", "a", "t", "e", "w", "a", "y">>
      /\ ~stopped
      /\ \A s \in Slots : ~aborted[s]
      /\ \A s \in Slots : NextFree(s) => ENABLED Intercept(s)

\* the dial of one request failed and was answered 502 while another request
\* was relayed whole
C12_Witness ==
  \E r, s \in Slots :
    /\ r # s
    /\ pc[r] = "done" /\ out[r].result = "dial_error"
    /\ statusCode[r] = StatusBadGateway /\ respBody[r] = BodyBadGateway
    /\ pc[s] = "done" /\ out[s].result = "ok" /\ statusCode[s] = StatusOK

\* C13: after a termination signal the listener accepts no new connection
\* and every request in flight at that moment still runs to completion and
\* delivers its response: no in-flight request is cut off.
C13_ShutdownDrains ==
  stopped =>
    /\ \A s \in Slots : ~ENABLED Intercept(s)
    /\ \A r \in Slots : ~aborted[r] /\ pc[r] # "killed"

\* C14: within one request the steps happen in the order body intercept,
\* rule evaluation, decision, forward (only if admitted), event emission: the
\* forwarder is not invoked before Engine.Check has returned, and the event
\* of the request is emitted once the forward step has finished.
C14_StepOrder ==
  \A r \in Slots :
    /\ pc[r] \in {"idle", "check"} => (forwarded[r] = 0 /\ out[r].result = "none")
    /\ forwarded[r] > 0 => Decided(r)
    /\ EventsOf(r) # {} => pc[r] = "done"
    /\ pc[r] = "done" => EventsOf(r) # {}

\* the last n elements of a sequence, all of it when it is shorter
LastN(seq, n) ==
  IF Len(seq) <= n THEN seq ELSE SubSeq(seq, Len(seq) - n + 1, Len(seq))

\* C15: after any sequence of LogEvent calls on a sink created with bound
\* maxEvents, the ring holds at most maxEvents events, and they are the most
\* recently logged ones in insertion order: nothing leaves the ring while the
\* bound is not exceeded, and what leaves is the oldest.
C15_RingBounded ==
  /\ Len(events) <= maxEvents
  /\ events = LastN(accepted, maxEvents)

\* three events were logged on a ring of two: the oldest has left and the two
\* that stay differ
C15_Witness ==
  /\ maxEvents = 2
  /\ Len(accepted) = 3
  /\ Len(events) = 2
  /\ events[1] # events[2]
  /\ accepted[1] # accepted[2]

\* the accepted events whose line has reached a file: all of them, but for
\* the event of a call that has not passed the write yet
Written(before) ==
  IF \E t \in Threads : tpc[t] \in before
  THEN SubSeq(accepted, 1, Len(accepted) - 1)
  ELSE accepted

\* C16: under any interleaving of concurrent LogEvent calls every event is
\* appended to the ring exactly once and written as exactly one whole line to
\* each enabled file, and the events have the same relative order in the ring,
\* in the JSON lines file and in the tabular file.
C16_OneLinePerEvent ==
  /\ Len(accepted) = calls
  /\ \E k \in 0..Len(accepted) : events = SubSeq(accepted, k + 1, Len(accepted))
  /\ jsonFile = "open" =>
        LinesOf(Bytes(jsonDisk)) =
          [i \in 1..Len(Written({"json"})) |-> MarshalEvent(accepted[i]) \o <<"\n">>]
  /\ csvFile = "open" =>
        LinesOf(Bytes(csvDisk)) =
          <<CSVHeader \o <<"\n">>>> \o
          [i \in 1..Len(Written({"json", "csv"})) |-> CSVLine(accepted[i])]
  /\ jsonFile = "nil" => jsonDisk = <<>>
  /\ csvFile = "nil" => csvDisk = <<>>

\* two different events have been logged to both files, a third call holds the
\* mutex between its two writes, and the other goroutine cannot enter
C16_Witness ==
  /\ jsonFile = "open" /\ csvFile = "open"
  /\ Len(accepted) = 3
  /\ accepted[1] # accepted[2]
  /\ \E t \in Threads :
       /\ tpc[t] = "csv"
       /\ \E u \in Threads \ {t} : \A e \in EventPool : ~ENABLED LogBegin(u, e)
  /\ Len(LinesOf(Bytes(jsonDisk))) = 3
  /\ Len(LinesOf(Bytes(csvDisk))) = 3

\* what an export of the given kind has to write for a ring
ExportOf(kind, ring) ==
  IF kind = "export_json"
  THEN [i \in 1..Len(ring) |-> MarshalEvent(ring[i])]
  ELSE <<CSVHeader \o <<"\n">>>> \o [i \in 1..Len(ring) |-> CSVLine(ring[i])]

\* C17: an ExportJSON or ExportCSV call that runs concurrently with LogEvent
\* calls writes the ring as it is at one instant, and leaves the ring
\* unchanged: from the moment the export has the ring until it returns no step
\* changes the ring, and the file it has written on return is the rendering
\* of that ring.
C17_ExportAtomic ==
  [][\A t \in Threads :
       tpc[t] \in {"export_json", "export_csv"} =>
         /\ events' = events
         /\ tring[t] = events
         /\ tpc'[t] = "idle" =>
               /\ exported'.kind = tpc[t]
               /\ exported'.content = ExportOf(tpc[t], events)]_vars

\* an export of a ring of two is in progress while a LogEvent call is still
\* allowed and cannot enter, and an earlier export of the other kind wrote a
\* ring of one
C17_Witness ==
  \E t \in Threads :
    /\ tpc[t] = "export_json"
    /\ Len(events) = 2
    /\ calls < MaxCalls
    /\ \E u \in Threads \ {t} :
         tpc[u] = "idle" /\ \A e \in EventPool : ~ENABLED LogBegin(u, e)
    /\ exported.kind = "export_csv"
    /\ Len(exported.ring) = 1
    /\ Len(exported.content) = 2

\* whether an event belongs to the answer of a query
Selected(kind, arg, e) ==
  CASE kind = "all" -> TRUE
    [] kind = "blocked" -> e.Blocked
    [] kind = "severity" -> e.Severity = arg
    [] kind = "rule" -> e.RuleID = arg
    [] OTHER -> FALSE

\* C18: GetEvents, GetBlockedEvents, GetEventsBySeverity and GetEventsByRule
\* return exactly the events of the ring that pass their filter, in insertion
\* order, and what they returned is a snapshot: it stays what it was at the
\* call while later LogEvent calls change the ring.
C18_QuerySnapshot ==
  snapshot.kind # "none" =>
    LET Keep(e) == Selected(snapshot.kind, snapshot.arg, e)
    IN snapshot.result = SelectSeq(snapshot.ring, Keep)

\* GetBlockedEvents returned one of the two events of the ring, and a later
\* LogEvent call has changed the ring since
C18_Witness ==
  /\ snapshot.kind = "blocked"
  /\ Len(snapshot.ring) = 2
  /\ Len(snapshot.result) = 1
  /\ snapshot.result[1] = snapshot.ring[2]
  /\ events # snapshot.ring
  /\ Len(accepted) = 3

\* the events logged so far that the bound of the ring has not pushed out
Recent == {i \in 1..Len(accepted) : i > Len(accepted) - maxEvents}

\* C19: when a write to the JSON lines file or to the tabular file fails
\* during LogEvent, a LogEvent issued after Close included, the event is still
\* kept in the ring and the query operations show it, and later LogEvent calls
\* proceed normally: every call appends its event and leaves the mutex free.
C19_WriteFailureKeepsEvent ==
  /\ \A i \in lost \cap Recent :
       /\ i - (Len(accepted) - Len(events)) \in 1..Len(events)
       /\ events[i - (Len(accepted) - Len(events))] = accepted[i]
       /\ \E j \in 1..Len(GetEvents(events)) : GetEvents(events)[j] = accepted[i]
  /\ Len(accepted) = calls
  /\ (\A t \in Threads : tpc[t] = "idle") /\ calls < MaxCalls =>
       \A t \in Threads, e \in EventPool : ENABLED LogBegin(t, e)

\* the sink was closed, the event logged after that reached no file, one more
\* event was logged after it, and the ring holds both
C19_Witness ==
  /\ jsonFile = "closed" /\ csvFile = "closed"
  /\ Len(accepted) = 3
  /\ lost = {2, 3}
  /\ Len(events) >= 2
  /\ events[Len(events) - 1] = accepted[2]
  /\ events[Len(events)] = accepted[3]
  /\ accepted[2] # accepted[3]
  /\ \A t \in Threads : tpc[t] = "idle"
  /\ snapshot.kind = "all" /\ snapshot.result = events

\* the lines of a file that are the header line
HeaderLines(lines) == {i \in 1..Len(lines) : lines[i] = CSVHeader \o <<"\n">>}

\* C20: for any sequence of opening a sink on the same tabular file, logging
\* events and closing it again, the file contains the fixed header exactly
\* once, as its first line; a file written by ExportCSV also starts with
\* exactly that header.
C20_HeaderOnce ==
  /\ csvFile # "nil" => HeaderLines(LinesOf(Bytes(csvDisk))) = {1}
  /\ exported.kind = "export_csv" => HeaderLines(exported.content) = {1}

\* a sink logged an event and was closed, the next sink on the same file has
\* logged one more, and an export of its ring was written
C20_Witness ==
  /\ csvFile = "open"
  /\ calls = 2
  /\ Len(accepted) = 1
  /\ Len(LinesOf(Bytes(csvDisk))) = 3
  /\ exported.kind = "export_csv"
  /\ Len(exported.content) = 2
  /\ \A t \in Threads : tpc[t] = "idle"

\* C21: after any sequence of rule admissions (the default rules followed by
\* any AddRule calls) no two rules of the engine's rule list share an
\* identifier.
C21_UniqueRuleIDs ==
  \A i \in 1..Len(rules), j \in 1..Len(rules) :
    i # j => rules[i].ID # rules[j].ID

\* the texts of a request that a rule can be matched against
RequestData(r) ==
  {r.RequestURI, r.Body, <<>>}
    \cup {r.Header[name][k] : <<name, k>> \in
            {<<n, j>> \in (DOMAIN r.Header) \X (1..2) : j <= Len(r.Header[n])}}
    \cup QueryValues(r.RequestURI)

RECURSIVE EnabledOnly(_)
\* a rule list without its disabled rules
EnabledOnly(rs) ==
  IF Len(rs) = 0 THEN <<>>
  ELSE (IF Head(rs).Enabled THEN <<Head(rs)>> ELSE <<>>) \o EnabledOnly(Tail(rs))

\* C22: a rule whose Enabled flag is false never matches and never contributes
\* to a decision, for every operator (not-contains and not-regex included) and
\* every target: Match is false on every text of the request, checkRule is
\* false, and Check decides as it does without the disabled rules.
C22_DisabledNeverMatches ==
  lastReq # NoRequest =>
    /\ \A i \in 1..Len(rules) :
         ~rules[i].Enabled =>
           /\ ~checkRule(rules[i], lastReq)
           /\ \A data \in RequestData(lastReq) : ~Match(rules[i], data)
    /\ <<lastDecision, lastReason>> = Check(EnabledOnly(rules), lastReq)

\* a disabled not-contains rule on the request URI was in the list when a
\* request was checked that the same rule, enabled, matches; the request passed
C22_Witness ==
  /\ lastReq # NoRequest
  /\ lastDecision = DecisionAllow
  /\ \E i \in 1..Len(rules) :
       /\ ~rules[i].Enabled
       /\ rules[i].Operator = OpNotContains
       /\ rules[i].Target = TargetURI
       /\ checkRule([rules[i] EXCEPT !.Enabled = TRUE], lastReq)

\* the target selectors checkRule knows
KnownTarget(target) ==
  \/ target \in {TargetURI, TargetBody, TargetHeaders, TargetArgs}
  \/ HasPrefix(target, TargetHeaderPrefix)

RECURSIVE KnownOnly(_)
\* a rule list without the rules whose target is not known
KnownOnly(rs) ==
  IF Len(rs) = 0 THEN <<>>
  ELSE (IF KnownTarget(Head(rs).Target) THEN <<Head(rs)>> ELSE <<>>)
       \o KnownOnly(Tail(rs))

Uncompilable(rule) ==
  /\ rule.Operator \in {OpRegex, OpNotRegex}
  /\ rule.Pattern \notin CompilablePatterns

\* C23: AddRule with a regex or not-regex rule whose pattern does not compile
\* returns an error and leaves the rule list exactly as it was; the rules
\* already admitted keep producing the same decisions as before the call.
C23_BadPatternRefused ==
  [][\A rule \in RulePool :
       Uncompilable(rule) /\ (AddRuleOK(rule) \/ AddRuleBad(rule)) =>
         /\ addErr'
         /\ rules' = rules
         /\ \A r \in EngineRequests : Check(rules', r) = Check(rules, r)]_vars

\* an AddRule call has just returned an error while the list holds the default
\* rules and a rule admitted before the call
C23_Witness ==
  /\ addErr
  /\ Len(rules) = Len(addDefaultRules) + 1
  /\ rules[Len(rules)] = RuleEtcURIPhase
  /\ \E rule \in RulePool : Uncompilable(rule) /\ rule.Operator = OpNotRegex

\* buffering the body of request r failed: a body was announced and nothing
\* is held for it
ReadFailed(r) ==
  pc[r] # "idle" /\ req[r].ContentLength > 0 /\ intercepted[r] = <<>>

\* C25: when buffering the request body fails, the request is still evaluated
\* and answered: the fault is reported, the rules decide as they do for the
\* same request with an empty body and as they do for the request itself
\* (whose headers and URI are all they read), and a response is written.
C25_ReadFaultStillServed ==
  \A r \in Slots :
    ReadFailed(r) =>
      /\ Len(logged[r]) >= 2 /\ logged[r][2] = "ERROR"
      /\ pc[r] = "check" => ENABLED CheckAndDecide(r)
      /\ pc[r] = "forward" => ENABLED Forward(r)
      /\ pc[r] \in {"forward", "done"} =>
           /\ decision[r] =
                Check(addDefaultRules,
                      [req[r] EXCEPT !.Body = <<>>, !.ContentLength = 0])[1]
           /\ decision[r] = Check(addDefaultRules, req[r])[1]
      /\ pc[r] = "done" =>
           statusCode[r] \in {StatusOK, StatusForbidden, StatusBadGateway}

\* the body of a request from a blocked client could not be read, the header
\* rule blocked it and 403 was written; the body of another request could not
\* be read either, no rule matched and it went on to the forwarder
C25_Witness ==
  \E r \in Slots, s \in Slots :
    /\ ReadFailed(r) /\ req[r] = ReqBadBotBody
    /\ pc[r] = "done" /\ decision[r] = DecisionBlock
    /\ statusCode[r] = StatusForbidden
    /\ ReadFailed(s) /\ req[s] = ReqSQLiBody
    /\ pc[s] = "done" /\ decision[s] = DecisionAllow
    /\ forwarded[s] = 1

\* C26: after InterceptRequest succeeds on a request with Content-Length > 0,
\* the bytes held by the interceptor, the bytes the Engine evaluates for a
\* rule on the request body and the bytes the forwarder reads from the live
\* body all equal the original body; with Content-Length not greater than 0
\* the live body is left untouched.
C26_BodyBytesAgree ==
  \A r \in Slots :
    pc[r] # "idle" /\ ~ReadFailed(r) =>
      IF req[r].ContentLength > 0
      THEN /\ intercepted[r] = req[r].Body
           /\ body[r] = req[r].Body
           /\ TargetData(Rule1001, req[r]) = req[r].Body
      ELSE body[r] = req[r].Body

\* the part of C26 the code keeps: interceptor and forwarder agree with the
\* original body, and a body without a positive Content-Length is untouched
BodyBytesKept ==
  \A r \in Slots :
    pc[r] # "idle" /\ ~ReadFailed(r) =>
      IF req[r].ContentLength > 0
      THEN intercepted[r] = req[r].Body /\ body[r] = req[r].Body
      ELSE body[r] = req[r].Body /\ intercepted[r] = <<>>

(***************************************************************************)
(* Claims about the efficacy analyser.                                     *)
(***************************************************************************)
\* the positions of the added events that carry the rule id
Carrying(id) ==
  {i \in 1..Len(eaEvents) :
     "rule_id" \in DOMAIN eaEvents[i] /\ eaEvents[i].rule_id = Str(id)}

\* the positions of the added events whose blocked flag is true
Flagged ==
  {i \in 1..Len(eaEvents) :
     "blocked" \in DOMAIN eaEvents[i] /\ eaEvents[i].blocked = Bool(TRUE)}

RuleIDs == {<<>>, ID1001, ID1005}

\* C27: after AnalyzeRules a rule has metrics exactly when an added event
\* carries its non-empty rule id; its TruePositives is the number of those
\* events whose blocked flag is true, its FalsePositives the number of the
\* others, and the two add up to its TotalTriggers
C27_MetricsPerAttributedRule ==
  eaAnalyzed =>
    /\ DOMAIN eaRuleMetrics \subseteq RuleIDs
    /\ \A id \in RuleIDs :
         /\ id \in DOMAIN eaRuleMetrics <=> id # <<>> /\ Carrying(id) # {}
         /\ id \in DOMAIN eaRuleMetrics =>
              /\ eaRuleMetrics[id].TruePositives
                   = Cardinality(Carrying(id) \cap Flagged)
              /\ eaRuleMetrics[id].FalsePositives
                   = Cardinality(Carrying(id) \ Flagged)
              /\ eaRuleMetrics[id].TruePositives
                   + eaRuleMetrics[id].FalsePositives
                   = eaRuleMetrics[id].TotalTriggers
              /\ eaRuleMetrics[id].TotalTriggers = Cardinality(Carrying(id))

\* rule 1005 analysed over one blocked event and one without a blocked flag,
\* next to an event no rule matched
C27_Witness ==
  /\ eaAnalyzed
  /\ Carrying(<<>>) # {}
  /\ ID1005 \in DOMAIN eaRuleMetrics
  /\ \E i \in Carrying(ID1005) : "blocked" \notin DOMAIN eaEvents[i]
  /\ eaRuleMetrics[ID1005].TruePositives = 1
  /\ eaRuleMetrics[ID1005].FalsePositives = 1

\* no event carries a label: the two counts no code assigns stay zero
NoLabels ==
  \A id \in DOMAIN eaRuleMetrics :
    eaRuleMetrics[id].FalseNegatives = 0 /\ eaRuleMetrics[id].TrueNegatives = 0

\* C28: without FN and TN labels the Recall, F1Score, Specificity and Accuracy
\* of every analysed rule are zero, whatever its TruePositives and
\* FalsePositives are
C28_UnlabelledDerivedZero ==
  eaAnalyzed /\ NoLabels =>
    \A id \in DOMAIN eaRuleMetrics :
      /\ eaRuleMetrics[id].Recall = Zero
      /\ eaRuleMetrics[id].F1Score = Zero
      /\ eaRuleMetrics[id].Specificity = Zero
      /\ eaRuleMetrics[id].Accuracy = Zero

\* what the analyser reports without labels: Specificity and Accuracy are
\* zero, Recall is one for a rule with a blocked event and zero otherwise, and
\* F1Score is zero only together with Recall
UnlabelledDerived ==
  eaAnalyzed =>
    /\ NoLabels
    /\ \A id \in DOMAIN eaRuleMetrics :
         /\ eaRuleMetrics[id].Specificity = Zero
         /\ eaRuleMetrics[id].Accuracy = Zero
         /\ eaRuleMetrics[id].Recall
              = IF Carrying(id) \cap Flagged # {} THEN Quot(1, 1) ELSE Zero
         /\ eaRuleMetrics[id].F1Score = Zero <=> eaRuleMetrics[id].Recall = Zero

\* 0 <= ratio <= limit
Within(ratio, limit) ==
  /\ ratio.den > 0
  /\ 0 <= ratio.num
  /\ ratio.num <= limit * ratio.den

\* C29: for every analysed rule Precision, Recall, F1Score and Specificity lie
\* in [0, 1] and BlockRate lies in [0, 100]; a ratio whose denominator is zero
\* is reported as 0
C29_RatiosInRange ==
  eaAnalyzed =>
    \A id \in DOMAIN eaRuleMetrics :
      LET m == eaRuleMetrics[id] IN
        /\ Within(m.Precision, 1)
        /\ Within(m.Recall, 1)
        /\ Within(m.F1Score, 1)
        /\ Within(m.Specificity, 1)
        /\ Within(m.BlockRate, 100)
        /\ m.TruePositives + m.FalsePositives = 0 => m.Precision = Zero
        /\ m.TruePositives + m.FalseNegatives = 0 => m.Recall = Zero
        /\ m.Precision.num + m.Recall.num = 0 => m.F1Score = Zero
        /\ m.TotalTriggers = 0 => m.BlockRate = Zero

\* one rule with blocked and unblocked events, its ratios strictly inside the
\* ranges, and one rule without a blocked event, its Recall and F1Score ratios
\* with a zero denominator
C29_Witness ==
  /\ eaAnalyzed
  /\ \E id \in DOMAIN eaRuleMetrics :
       /\ eaRuleMetrics[id].TruePositives > 0
       /\ eaRuleMetrics[id].FalsePositives > 0
       /\ eaRuleMetrics[id].F1Score # Zero
       /\ eaRuleMetrics[id].F1Score # Quot(1, 1)
  /\ \E id \in DOMAIN eaRuleMetrics :
       /\ eaRuleMetrics[id].TruePositives = 0
       /\ eaRuleMetrics[id].Recall = Zero
       /\ eaRuleMetrics[id].F1Score = Zero

\* the recommendations of a rule, as a set
Recommended(id) ==
  {eaRuleMetrics[id].Recommendations[i] :
     i \in 1..Len(eaRuleMetrics[id].Recommendations)}

\* the added events of the rule that carry a response time
Timed(id) == {i \in Carrying(id) : "response_time_ms" \in DOMAIN eaEvents[i]}

\* C30: "High false positive rate" is recommended for a rule exactly when its
\* FP is positive and its Precision TP / (TP + FP) is strictly below 0.80; a
\* rule with TP = 4, FP = 1 and no latency data gets no recommendation
C30_HighFalsePositiveThreshold ==
  eaAnalyzed =>
    \A id \in DOMAIN eaRuleMetrics :
      LET tp == Cardinality(Carrying(id) \cap Flagged)
          fp == Cardinality(Carrying(id) \ Flagged)
      IN /\ HighFalsePositiveRate \in Recommended(id)
              <=> fp > 0 /\ 5 * tp < 4 * (tp + fp)
         /\ tp = 4 /\ fp = 1 /\ Timed(id) = {} =>
              /\ eaRuleMetrics[id].Precision = Quot(4, 5)
              /\ eaRuleMetrics[id].BlockRate = Quot(80, 1)
              /\ eaRuleMetrics[id].Recommendations = <<>>

\* rule 1001 analysed over four blocked events and one that was not blocked
C30_Witness ==
  /\ eaAnalyzed
  /\ ID1001 \in DOMAIN eaRuleMetrics
  /\ eaRuleMetrics[ID1001].TruePositives = 4
  /\ eaRuleMetrics[ID1001].FalsePositives = 1
  /\ eaRuleMetrics[ID1001].Recommendations = <<>>

\* the ratio is the first value minus the second
IsDifference(ratio, first, second) ==
  ratio.num * first.den * second.den
    = (first.num * second.den - second.num * first.den) * ratio.den

\* the two ratios add up to zero
Opposite(ratio, other) == ratio.num * other.den + other.num * ratio.den = 0

\* the names of the reported differences and of the metrics they come from
DiffFields ==
  {<<"f1_score_diff", "F1Score">>, <<"precision_diff", "Precision">>,
   <<"recall_diff", "Recall">>, <<"block_rate_diff", "BlockRate">>}

\* what a call CompareRules(first, second) has to return
ComparisonAsSpecified(first, second, result) ==
  IF first \notin DOMAIN eaRuleMetrics \/ second \notin DOMAIN eaRuleMetrics
  THEN ~result.found
  ELSE /\ result.found
       /\ \A f \in DiffFields :
            /\ IsDifference(result.difference[f[1]],
                            eaRuleMetrics[first][f[2]],
                            eaRuleMetrics[second][f[2]])
            /\ Opposite(result.difference[f[1]],
                        CompareRulesOf(eaRuleMetrics, second, first)
                          .difference[f[1]])
            /\ first = second => result.difference[f[1]] = Zero

\* C31: CompareRules returns no result when one of the two rules has no
\* metrics; otherwise every difference it reports is the value of the first
\* rule minus the value of the second, the call with the rules exchanged
\* reports the negated differences, and a rule compared with itself differs
\* by zero
C31_CompareSignedDifferences ==
  [][\A first, second \in CompareIDs :
       CompareRules(first, second) =>
         ComparisonAsSpecified(first, second, comparison'.result)]_vars

\* rule 1001 with a false positive compared with rule 1005 without one: the
\* precision differs by less than zero
C31_Witness ==
  /\ comparison.ruleID1 = ID1001
  /\ comparison.ruleID2 = ID1005
  /\ comparison.result.found
  /\ comparison.result.difference.precision_diff.num < 0
  /\ comparison.result.rule_2.precision = Quot(1, 1)

\* C32: the top-N source addresses of a rule are the ten entries with the
\* largest counts, and of entries with equal counts the one first seen in the
\* event stream is preferred, so that one event sequence has one top-N set
C32_TopNFirstSeen ==
  topBlocked.done => {topBlocked.keys} = TopFirstSeen(ipCounts, TopN)

\* the part that holds: as many entries as there are, at most ten, and no
\* entry left out has a larger count than an entry kept
TopNLargest ==
  topBlocked.done =>
    /\ Cardinality(topBlocked.keys) = Min(Len(ipCounts), TopN)
    /\ \A k \in topBlocked.keys :
         \A j \in DOMAIN ipCounts \ topBlocked.keys : ipCounts[j] <= ipCounts[k]

\* the metrics a new analyser computes when it is given the events once
FreshMetrics(evs) == Analysis(evs, [id \in {} |-> 0])

\* C33: AnalyzeRules recomputes the metrics from all added events: a second
\* call without a new event changes no metrics, and a call after further
\* events gives the metrics of a new analyser that was given all events once
C33_RecomputedFromScratch ==
  [][AnalyzeRules =>
       /\ eaRuleMetrics' = FreshMetrics(eaEvents)
       /\ eaAnalyzed => eaRuleMetrics' = eaRuleMetrics]_vars

\* rule 1001 analysed once over one event and, after two more events, again
C33_Witness ==
  /\ eaAnalyzed
  /\ Len(eaEvents) >= 3
  /\ ID1001 \in DOMAIN eaRuleMetrics
  /\ eaRuleMetrics[ID1001].TotalTriggers = 3
  /\ eaRuleMetrics[ID1001].TruePositives = 2

(***************************************************************************)
(* Claims about the matchers and the loader of event logs.                 *)
(***************************************************************************)
\* the string is empty or one character repeated
ConstantString(s) == \A i, j \in 1..Len(s) : s[i] = s[j]

\* C34: the entropy of the empty string and of every string made of one
\* repeated character, characters of several bytes included, is 0, and such a
\* string never matches the high-entropy operator
C34_ConstantStringZeroEntropy ==
  entropy # NoEntropy /\ ConstantString(matchData) =>
    entropy = 0 /\ ~HighEntropy(matchData)

\* the part that holds: a constant string of one-byte characters has entropy
\* 0, and no constant string matches the high-entropy operator
ConstantStringNeverHigh ==
  entropy # NoEntropy /\ ConstantString(matchData) =>
    /\ ~HighEntropy(matchData)
    /\ ByteLen(matchData) = Len(matchData) => entropy = 0

\* the number an event identifier ends in
Serial(id) == IF Len(id) = 0 THEN 0 ELSE IndexOf(Digits, id[Len(id)]) - 1

\* C35: no two events the sink accepted carry the same event identifier, and
\* the identifiers increase in the order in which the events were appended
C35_EventIDsUniqueIncreasing ==
  \A i, j \in 1..Len(accepted) :
    i < j =>
      /\ accepted[i].EventID # accepted[j].EventID
      /\ Serial(accepted[i].EventID) < Serial(accepted[j].EventID)

\* what holds instead: the sink stores the identifier the caller put into the
\* event, whatever it is
EventIDsAsGiven ==
  \A i \in 1..Len(accepted) :
    \E e \in EventPool : accepted[i].EventID = e.EventID

\* C36: loading an event log terminates on every file, and it returns the
\* well-formed events of the file, those before and those after a malformed
\* entry
C36_LoadTerminates ==
  <>(loadPC = "done" /\ loaded = EventsOfEntries(logFile.entries))

\* the part that holds: when the loader returns it returns the well-formed
\* events in their order, and entries that are well-formed JSON but not
\* objects are skipped
LoadedWhenDone ==
  loadPC = "done" => loaded = EventsOfEntries(logFile.entries)

\* a file without a syntax error is loaded to its end
LoadTerminatesOnJSON ==
  (\A i \in 1..Len(logFile.entries) : logFile.entries[i].kind # "broken")
    ~> loadPC = "done"

\* the loop of the loader at a syntax error: More sees the byte that Decode
\* left, Decode returns the error it kept
LoadStuck ==
  decErr => loadPC \in {"more", "decode"} /\ decScanp < Len(logFile.entries)

\* the request-URI holds ../, ..\ or ..%2F
HasTraversal(uri) ==
  \/ Contains(uri, <<".", ".", "/">>)
  \/ Contains(uri, <<".", ".", "\\">>)
  \/ Contains(uri, <<".", ".", "%", "2", "F">>)

\* C37: with the default rules every request whose raw request-URI holds a
\* traversal sequence, ../, ..\ or the encoded ..%2F, is blocked, by rule 1003
\* when no rule of the earlier headers pass has blocked it
C37_TraversalBlocked ==
  (Checked /\ rules = addDefaultRules /\ HasTraversal(lastReq.RequestURI)) =>
    /\ lastDecision = DecisionBlock
    /\ lastReason \in {Reason(Rule1003), Reason(Rule1005)}

\* the part that holds: the sequences ../ and ..\ are blocked
PlainTraversalBlocked ==
  (/\ Checked /\ rules = addDefaultRules
   /\ \/ Contains(lastReq.RequestURI, <<".", ".", "/">>)
      \/ Contains(lastReq.RequestURI, <<".", ".", "\\">>)) =>
    /\ lastDecision = DecisionBlock
    /\ lastReason \in {Reason(Rule1003), Reason(Rule1005)}

\* C38: requests served in parallel do not influence each other's decisions
\* while no rule is admitted: no step of a Check call changes the rule list,
\* and under every interleaving each call returns the decision and the reason
\* Check gives for its request evaluated alone
C38_ParallelChecksIndependent ==
  [][/\ rules' = rules
     /\ \A t \in Slots :
          checking'[t].pc = "done" =>
            <<checking'[t].decision, checking'[t].reason>>
              = Check(rules', checking'[t].r)]_vars

\* two calls that ran side by side have returned, one with Block for the
\* traversal request, one with Allow
C38_Witness ==
  \E t, u \in Slots :
    /\ checking[t].pc = "done" /\ checking[t].decision = DecisionBlock
    /\ checking[t].r = ReqTraversal
    /\ checking[u].pc = "done" /\ checking[u].decision = DecisionAllow
    /\ Len(rules) > Len(addDefaultRules)

\* the values the target selector of a rule yields for a request
Extracted(target, r) ==
  CASE target = TargetURI -> {r.RequestURI}
    [] HasPrefix(target, TargetHeaderPrefix) ->
         {HeaderGet(r.Header,
                    SubSeq(target, Len(TargetHeaderPrefix) + 1, Len(target)))}
    [] target = TargetHeaders ->
         {r.Header[name][k] : <<name, k>> \in
            {<<n, j>> \in (DOMAIN r.Header) \X (1..2) : j <= Len(r.Header[n])}}
    [] target = TargetArgs -> QueryValues(r.RequestURI)
    [] OTHER -> {}

\* C39: a rule triggers only on data its target selector yields: whenever
\* checkRule is true, a value that is not empty was extracted and the matcher
\* matches it, for every selector and also for not-contains and not-regex
C39_EmptyValueNeverTriggers ==
  lastReq # NoRequest =>
    \A i \in 1..Len(rules) :
      checkRule(rules[i], lastReq) =>
        \E data \in Extracted(rules[i].Target, lastReq) :
          data # <<>> /\ Match(rules[i], data)

\* the part that holds: the selectors with one text, REQUEST_URI and
\* REQUEST_HEADERS:<name>, never trigger on an empty text
OneTextGuarded ==
  lastReq # NoRequest =>
    \A i \in 1..Len(rules) :
      (/\ checkRule(rules[i], lastReq)
       /\ \/ rules[i].Target = TargetURI
          \/ HasPrefix(rules[i].Target, TargetHeaderPrefix)) =>
        \E data \in Extracted(rules[i].Target, lastReq) :
          data # <<>> /\ Match(rules[i], data)

====
